---- MODULE Spec2Model ----
(***************************************************************************)
(* Model of the bevy_javelin projectile / spawner update engine.           *)
(*                                                                         *)
(* Spec    : the per-tick update driver (projectile_update), the type      *)
(*           erased dispatch adapters, the recursive spawner update, the   *)
(*           deferred command queue and the lifetime tokens of every       *)
(*           instance.                                                     *)
(* RcSpec  : the lifetime token (ProjectileRc) on its own: one root token  *)
(*           and its clones, cloned / released / dropped in any order.     *)
(*                                                                         *)
(* User hooks (is_expired, is_complete, spawn_projectile, space, ...) are  *)
(* trait methods implemented by game code: their results are inputs drawn  *)
(* from small sets.  Time is counted in integer units of dt.               *)
(***************************************************************************)
EXTENDS Integers, Sequences, FiniteSets, TLC

\* ------------------------------------------------------------------ bounds
MaxEntities == 3
MaxRoots == 1
MaxLifetime == 2
MaxChain == 2
MaxTokens == 4
MaxNodes == 3
MaxEvents == 2
MaxTicks == 61
MaxPreload == 2
MaxHalves == 5
MaxBurst == 3
MaxBurstTicks == 3
MaxPos == 2
MaxWtTicks == 2
MaxSpawns == 1
MaxPayloads == 2
MaxLimit == 3
MaxLmTicks == 3
MaxBuCalls == 4
MaxCoCalls == 4
MaxSdTicks == 2
MaxSeed == 2
MaxFcLife == 3
MaxFcDur == 2
MaxLiveKids == 1
MaxAcCmds == 3
MaxWsTicks == 2
MaxNest == 2
MaxNfCalls == 4

\* f32 values are counted in units of 2^-29: 1.0 is One, and a value needs
\* rounding as soon as it has more than 24 significant bits.
One == 536870912
F32Mantissa == 16777216

Entities == 1..MaxEntities
Dts == {1, 2}
Spaces == {"Local", "World"}
ContextSpawns == {"spawn_local_space", "spawn_world_space"}

VARIABLES
    inst,       \* entity id -> ProjectileInstance component (and whether the entity exists)
    strong,     \* counter id -> strong count of the Arc<()> behind the tokens
    queue,      \* Commands issued during the running pass, applied when it ends
    pending,    \* entities the running pass has still to visit
    pc,         \* "idle" between passes, "pass" inside projectile_update
    dt,         \* delta_secs read by the running pass (0 when idle)
    nextId,     \* next entity id the host hands out
    last,       \* what the most recent loop iteration of the driver did, and the roots
                \* that were ripe for removal when the running pass began
    tokens,     \* RcSpec: token id -> token held, "none" or "dropped"
    arc,        \* RcSpec: strong count of the one shared Arc<()>
    node,       \* CmdSpec: entity id -> kind of instance it carries, parent, relation
    events,     \* CmdSpec: ProjectileCommand events not yet read
    got,        \* CmdSpec: entity id -> apply_command calls received in this frame
    sent,       \* CmdSpec: entity id -> commands addressed to it before this frame began
    seen,       \* CmdSpec: got as it was when projectile_update ran in this frame
    ran,        \* CmdSpec: systems that have finished in this frame
    running,    \* CmdSpec: the system in progress, or "none"
    trail,      \* CmdSpec: the last command read and the entities it was applied to
    cx,         \* CtxSpec: the ProjectileContext of the update in progress, its accesses
    sr,         \* RateSpec: the SpawnRate, [times_per_second, meta]
    obs,        \* RateSpec: what the calls made on sr so far returned and added up to
    rb,         \* BurstSpec: the RandomBursts, [base, lo, hi, current]
    bo,         \* BurstSpec: what the calls made on rb so far returned and added up to
    ms,         \* ChainSpec: a root spawner driven by a SpawnRate, and its children
    wt,         \* TransformSpec: a parent, its world-space child, and what the child read
    ld,         \* LoadSpec: the resources present and the bundles one pass realizes
    cl,         \* ClusterSpec: a SpawnerCluster instance, its token and its queued children
    lm,         \* LimitSpec: a Limit over a SpawnRate, and what its calls returned
    bu,         \* BurstOnceSpec: a Burst, the spawner built on it, and what its calls returned
    co,         \* OnceSpec: a ConditionOnce, and what the calls made on it did
    sd,         \* SeedSpec: two StandardSpawners built alike and seeded alike
    fc,         \* FacSpec: one instance, and the fac its context showed during each update
    ac,         \* OfferSpec: one instance, and the handlers a command was offered to
    ws,         \* WrapSpec: a spawner chain, bare and wrapped in WithSpawner, driven alike
    nf          \* NestSpec: a nesting of rate controllers, and what its calls returned

engineVars == <<inst, strong, queue, pending, pc, dt, nextId, last>>
rcVars == <<tokens, arc>>
cmdVars == <<node, events, got, sent, seen, ran, running, trail>>
rateVars == <<sr, obs>>
burstVars == <<rb, bo>>
toolVars == <<wt, ld, cl, lm, bu, co, sd>>
lateVars == <<fc, ac, ws, nf>>
libVars == <<cmdVars, cx, rateVars, burstVars, ms, toolVars, lateVars>>
vars == <<inst, strong, queue, pending, pc, dt, nextId, last, tokens, arc, libVars>>
notCmd == <<engineVars, rcVars, cx, rateVars, burstVars, ms, toolVars, lateVars>>
notCtx == <<engineVars, rcVars, cmdVars, rateVars, burstVars, ms, toolVars, lateVars>>
notRate == <<engineVars, rcVars, cmdVars, cx, burstVars, ms, toolVars, lateVars>>
notBurst == <<engineVars, rcVars, cmdVars, cx, rateVars, ms, toolVars, lateVars>>
notChain == <<engineVars, rcVars, cmdVars, cx, rateVars, burstVars, toolVars, lateVars>>
firstLibs == <<cmdVars, cx, rateVars, burstVars, ms>>
notWt == <<engineVars, rcVars, firstLibs, ld, cl, lm, bu, co, sd, lateVars>>
notLd == <<engineVars, rcVars, firstLibs, wt, cl, lm, bu, co, sd, lateVars>>
notCl == <<rcVars, firstLibs, wt, ld, lm, bu, co, sd, lateVars>>
notLm == <<engineVars, rcVars, firstLibs, wt, ld, cl, bu, co, sd, lateVars>>
notBu == <<engineVars, rcVars, firstLibs, wt, ld, cl, lm, co, sd, lateVars>>
notCo == <<engineVars, rcVars, firstLibs, wt, ld, cl, lm, bu, sd, lateVars>>
notSd == <<engineVars, rcVars, firstLibs, wt, ld, cl, lm, bu, co, lateVars>>
notFc == <<engineVars, rcVars, firstLibs, toolVars, ac, ws, nf>>
notAc == <<engineVars, rcVars, firstLibs, toolVars, fc, ws, nf>>
notWs == <<engineVars, rcVars, firstLibs, toolVars, fc, ac, nf>>
notNf == <<engineVars, rcVars, firstLibs, toolVars, fc, ac, ws>>

\* ------------------------------------------------------------ ProjectileRc

\* ProjectileRc::new: Owned(Arc::new(())), one strong reference.
RcNew(c) == [state |-> "Owned", counter |-> c]

\* #[derive(Clone)]: an Owned clone is an Arc clone (strong + 1), a Released
\* clone is a Weak clone (strong unchanged).
StrongAfterClone(rc, sc) ==
    IF rc.state = "Owned" THEN [sc EXCEPT ![rc.counter] = @ + 1] ELSE sc

\* ProjectileRc::release: Owned(rc) becomes Released(Arc::downgrade(rc)) and the
\* Arc it held is dropped; Released stays as it is.
ReleaseNoDowngrade(rc) == rc

Release(rc) ==
    IF rc.state = "Owned" THEN [rc EXCEPT !.state = "Released"] ELSE rc

StrongAfterReleaseLeak(rc, sc) == sc

StrongAfterReleaseAlways(rc, sc) == [sc EXCEPT ![rc.counter] = @ - 1]

StrongAfterRelease(rc, sc) ==
    IF rc.state = "Owned" THEN [sc EXCEPT ![rc.counter] = @ - 1] ELSE sc

\* Dropping a token (its component is removed with the entity).
StrongAfterDrop(rc, sc) ==
    IF rc.state = "Owned" THEN [sc EXCEPT ![rc.counter] = @ - 1] ELSE sc

\* ProjectileRc::should_drop.
ShouldDropIgnoresCount(rc, sc) == rc.state = "Released"

ShouldDropNever(rc, sc) == FALSE

ShouldDrop(rc, sc) ==
    IF rc.state = "Owned" THEN FALSE ELSE sc[rc.counter] = 0

\* -------------------------------------------------------- ProjectileInstance

NoRc == [state |-> "None", counter |-> 0]

NoInst ==
    [st |-> "none", kind |-> "none", nsp |-> 0, dexp |-> FALSE, lifetime |-> 0,
     done |-> FALSE, root |-> FALSE, rc |-> NoRc, expired |-> FALSE,
     parent |-> 0, rel |-> "None", nexp |-> 0, saw |-> FALSE]

\* ProjectileInstance::new: ErasedProjectileInst { expired: false }, root, fresh token.
\* nsp is the length of the as_spawner / extension chain of the user type, dexp
\* whether it keeps the default on_expire (cx.despawn()).
NewProjectile(id, nsp, dexp) ==
    [NoInst EXCEPT !.st = "live", !.kind = "projectile", !.nsp = nsp, !.dexp = dexp,
                   !.root = TRUE, !.rc = RcNew(id)]

\* ProjectileInstance::spawner: ErasedSpawner, root, fresh token.
NewSpawner(id, nsp) ==
    [NoInst EXCEPT !.st = "live", !.kind = "spawner", !.nsp = nsp,
                   !.root = TRUE, !.rc = RcNew(id)]

\* ProjectileInstance::from_spawner_iter: SpawnerCluster of nsp items, root, fresh token.
FromSpawnerIter(id, nsp) ==
    [NoInst EXCEPT !.st = "live", !.kind = "cluster", !.nsp = nsp,
                   !.root = TRUE, !.rc = RcNew(id)]

\* ProjectileInstance::new_with_reference: non-root, rc: reference.clone().
\* The instance is built when the command is issued and waits in the queue.
NewWithReferenceFreshRoot(cfg, reference, parent, rel) ==
    [NoInst EXCEPT !.st = "queued", !.kind = "projectile", !.nsp = cfg.nsp,
                   !.dexp = cfg.dexp, !.root = TRUE, !.rc = reference,
                   !.parent = parent, !.rel = rel]

NewWithReferenceAfterRelease(cfg, reference, parent, rel) ==
    [NoInst EXCEPT !.st = "queued", !.kind = "projectile", !.nsp = cfg.nsp,
                   !.dexp = cfg.dexp, !.root = FALSE, !.rc = Release(reference),
                   !.parent = parent, !.rel = rel]

NewWithReference(cfg, reference, parent, rel) ==
    [NoInst EXCEPT !.st = "queued", !.kind = "projectile", !.nsp = cfg.nsp,
                   !.dexp = cfg.dexp, !.root = FALSE, !.rc = reference,
                   !.parent = parent, !.rel = rel]

\* ProjectileInstance::spawner_with_reference: non-root spawner, rc: reference.clone().
SpawnerWithReference(cfg, reference, parent, rel) ==
    [NoInst EXCEPT !.st = "queued", !.kind = "spawner", !.nsp = cfg.nsp,
                   !.root = FALSE, !.rc = reference,
                   !.parent = parent, !.rel = rel]


\* ------------------------------------------------------- dispatch adapters

\* spawner_done: this.is_complete(cx) && this.extension().is_none_or(|x| spawner_done(x, cx)).
\* c[i] is what is_complete answers for the i-th spawner of the chain.
RECURSIVE SpawnerDone(_, _)
SpawnerDoneHeadOnly(c, i) == i > Len(c) \/ c[i]

SpawnerDone(c, i) ==
    IF i > Len(c) THEN TRUE ELSE c[i] /\ SpawnerDone(c, i + 1)

\* match this.space(): Local => with_child (ChildOf), World => with_related::<WorldSpaceChildOf>.
SpaceRelationSwapped(space) ==
    IF space = "Local" THEN "WorldSpaceChildOf" ELSE "ChildOf"

SpaceRelation(space) ==
    IF space = "Local" THEN "ChildOf" ELSE "WorldSpaceChildOf"

\* ProjectileContext::spawn_local_space (with_child) and
\* ProjectileContext::spawn_world_space (with_related::<WorldSpaceChildOf>).
ContextSpawnRelation(api) ==
    IF api = "spawn_local_space" THEN "ChildOf" ELSE "WorldSpaceChildOf"

\* update_spawner: for the i-th spawner of the chain and then its extension.
\* c0[i] is is_complete at the start of the step, n[i] how many times
\* spawn_projectile answers Some before its first None, sp[i] what space() answers.
\* The result is the relation requested for each child, in the order issued.
RECURSIVE UpdateSpawner(_, _, _, _)
UpdateSpawnerStopsAtComplete(c0, n, sp, i) ==
    IF i > Len(c0) \/ c0[i] THEN <<>>
    ELSE [j \in 1..n[i] |-> SpaceRelation(sp[i])] \o UpdateSpawner(c0, n, sp, i + 1)

UpdateSpawner(c0, n, sp, i) ==
    IF i > Len(c0) THEN <<>>
    ELSE (IF ~c0[i] THEN [j \in 1..n[i] |-> SpaceRelation(sp[i])] ELSE <<>>)
         \o UpdateSpawner(c0, n, sp, i + 1)

\* update_spawner: the spawners of the chain whose update(cx, dt) is called,
\* those that were not complete when their step began.
RECURSIVE UpdatedSpawners(_, _)
UpdatedSpawners(c0, i) ==
    IF i > Len(c0) THEN {}
    ELSE (IF ~c0[i] THEN {i} ELSE {}) \cup UpdatedSpawners(c0, i + 1)

\* ErasedProjectileInst::update, the branch taken on is_expired / self.expired.
RunsUpdateProjectile(isExp) == ~isExp

RunsOnExpireEveryTick(isExp, expired) == isExp

RunsOnExpire(isExp, expired) == isExp /\ ~expired

\* ErasedProjectileInst::update, the value returned: with a spawner
\* spawner_done(spawner, &cx) && self.expired, without one self.expired.
ProjectileDoneIgnoresSpawner(expired, c1) == expired

ProjectileDone(expired, c1) ==
    IF Len(c1) > 0 THEN SpawnerDone(c1, 1) /\ expired ELSE expired

\* ----------------------------------------------------------- update driver

\* projectile_update, done branch: projectile.root && projectile.rc.should_drop().
DriverDespawnsNonRoot(i, sc) == ShouldDrop(i.rc, sc)

DriverDespawns(i, sc) == i.root /\ ShouldDrop(i.rc, sc)

\* projectile.lifetime += dt.
AdvanceLifetimeTwice(l, d) == l + d + d

AdvanceLifetime(l, d) == l + d

\* if projectile.projectile.update(cx, dt) { projectile.done = true; projectile.rc.release(); }
Completed(i, ret) ==
    IF ret THEN [i EXCEPT !.done = TRUE, !.rc = Release(i.rc)] ELSE i

NoVisit ==
    [e |-> 0, path |-> "none", dt |-> 0, isExp |-> FALSE, ranUpd |-> FALSE,
     ranExp |-> FALSE, c0 |-> <<>>, c1 |-> <<>>, n |-> <<>>, sp |-> <<>>,
     hk |-> 0, api |-> "spawn_world_space", first |-> 0, kids |-> 0, ret |-> FALSE,
     upd |-> {}, ripe |-> {}]

\* The roots that are done and whose counter has no owner left: their own
\* token is Released and every clone has been released or dropped.
RipeRoots ==
    {e \in Entities : /\ inst[e].st = "live" /\ inst[e].root /\ inst[e].done
                      /\ inst[e].rc.state = "Released"
                      /\ strong[inst[e].rc.counter] = 0}

Free == MaxEntities + 1 - nextId

\* The user types a spawn yields: a leaf projectile that keeps the default
\* on_expire, or a projectile that is also a spawner and overrides on_expire.
KidCfg == {[nsp |-> 0, dexp |-> TRUE], [nsp |-> 1, dexp |-> FALSE]}

\* Cloning a token k times.
RECURSIVE StrongAfterClones(_, _, _)
StrongAfterClones(rc, sc, k) ==
    IF k = 0 THEN sc ELSE StrongAfterClones(rc, StrongAfterClone(rc, sc), k - 1)


\* ------------------------------------------------------------ host commands

\* The entities despawn() removes with e: e and everything below it through
\* Children (ChildOf is a linked-spawn relationship, WorldSpaceChildOf is not).
RECURSIVE Linked(_, _, _)
Linked(S, im, k) ==
    IF k = 0 THEN S
    ELSE Linked(S \cup {x \in Entities : /\ im[x].st = "live"
                                         /\ im[x].rel = "ChildOf"
                                         /\ im[x].parent \in S}, im, k - 1)

\* commands.entity(e).despawn() applied to the world w = [inst, strong]: the
\* components of the removed entities are dropped, their tokens with them.
Despawn(e, w) ==
    IF w.inst[e].st # "live" THEN w
    ELSE LET D == Linked({e}, w.inst, MaxEntities)
         IN  [inst |-> [x \in Entities |->
                          IF x \in D THEN [w.inst[x] EXCEPT !.st = "gone"]
                          ELSE w.inst[x]],
              strong |-> [c \in Entities |->
                          w.strong[c] - Cardinality({x \in D :
                              /\ w.inst[x].rc.state = "Owned"
                              /\ w.inst[x].rc.counter = c})]]

\* with_child / with_related applied: the child entity enters the world; a
\* relationship whose target no longer exists is removed from the child.
Insert(e, w) ==
    LET i == w.inst[e]
        attached == w.inst[i.parent].st = "live"
    IN  [w EXCEPT !.inst[e] = [i EXCEPT !.st = "live",
                                        !.rel = IF attached THEN i.rel ELSE "None"]]

RECURSIVE ApplyCommands(_, _)
ApplyCommands(q, w) ==
    IF q = <<>> THEN w
    ELSE ApplyCommands(Tail(q),
                       IF Head(q).op = "despawn" THEN Despawn(Head(q).e, w)
                       ELSE Insert(Head(q).e, w))

DespawnCmd(e) == [op |-> "despawn", e |-> e]
SpawnCmd(e) == [op |-> "spawn", e |-> e]

\* ------------------------------------------------------------------ actions

EngineInit ==
    /\ inst = [e \in Entities |-> NoInst]
    /\ strong = [e \in Entities |-> 0]
    /\ queue = <<>>
    /\ pending = {}
    /\ pc = "idle"
    /\ dt = 0
    /\ nextId = 1
    /\ last = NoVisit

EngineIdle == EngineInit

\* Game code spawns a root instance between two passes:
\* commands.spawn(ProjectileInstance::new(..) / ::spawner(..) / ::from_spawner_iter(..)).
SpawnRoot(kind, nsp, dexp) ==
    /\ pc = "idle"
    /\ nextId <= MaxEntities
    /\ Cardinality({x \in Entities : inst[x].root}) < MaxRoots
    /\ inst' = [inst EXCEPT ![nextId] =
                  CASE kind = "projectile" -> NewProjectile(nextId, nsp, dexp)
                    [] kind = "spawner" -> NewSpawner(nextId, nsp)
                    [] OTHER -> FromSpawnerIter(nextId, nsp)]
    /\ strong' = [strong EXCEPT ![nextId] = 1]
    /\ nextId' = nextId + 1
    /\ last' = NoVisit
    /\ UNCHANGED <<queue, pending, pc, dt, tokens, arc, libVars>>

\* projectile_update without a Time<Virtual> resource: let Ok(..) = .. else { return }.
PassWithoutTimeStillPrunes ==
    /\ pc = "idle"
    /\ last' = [NoVisit EXCEPT !.path = "notime"]
    /\ inst' = [e \in Entities |->
                  IF inst[e].st = "live" /\ inst[e].done /\ DriverDespawns(inst[e], strong)
                  THEN [inst[e] EXCEPT !.st = "gone"] ELSE inst[e]]
    /\ UNCHANGED <<strong, queue, pending, pc, dt, nextId, tokens, arc, libVars>>

PassWithoutTime ==
    /\ pc = "idle"
    /\ last' = [NoVisit EXCEPT !.path = "notime"]
    /\ UNCHANGED <<inst, strong, queue, pending, pc, dt, nextId, tokens, arc, libVars>>

\* projectile_update reads dt and starts iterating the query: every entity that
\* carries a ProjectileInstance at that moment is visited once, in any order.
BeginPass(d) ==
    /\ pc = "idle"
    /\ \A e \in Entities :
          (inst[e].st = "live" /\ ~inst[e].done) => inst[e].lifetime + d <= MaxLifetime
    /\ pc' = "pass"
    /\ dt' = d
    /\ pending' = {e \in Entities : inst[e].st = "live"}
    /\ last' = [NoVisit EXCEPT !.ripe = RipeRoots]
    /\ UNCHANGED <<inst, strong, queue, nextId, tokens, arc, libVars>>

\* Loop body for an instance that is already done.
VisitDone(e) ==
    /\ pc = "pass" /\ e \in pending
    /\ inst[e].done
    /\ pending' = pending \ {e}
    /\ IF DriverDespawns(inst[e], strong)
       THEN /\ queue' = Append(queue, DespawnCmd(e))
            /\ last' = [NoVisit EXCEPT !.e = e, !.path = "remove", !.ripe = last.ripe]
       ELSE /\ queue' = queue
            /\ last' = [NoVisit EXCEPT !.e = e, !.path = "skip", !.ripe = last.ripe]
    /\ UNCHANGED <<inst, strong, pc, dt, nextId, tokens, arc, libVars>>

\* What one dispatched update leaves behind: the instance's own record, the
\* children built for the commands it issued, the token counts and the queue.
\* rels is the relation of each child in the order issued, kc their user types.
Dispatched(e, self, despawns, rels, kc, ret, rec) ==
    LET k == Len(rels)
        ids == nextId..(nextId + k - 1)
        mk(j) == IF self.kind = "cluster"
                 THEN SpawnerWithReference(kc[j], self.rc, e, rels[j])
                 ELSE NewWithReference(kc[j], self.rc, e, rels[j])
    IN  /\ k <= Free
        /\ pending' = pending \ {e}
        /\ inst' = [x \in Entities |->
                      IF x = e THEN Completed(self, ret)
                      ELSE IF x \in ids THEN mk(x - nextId + 1)
                      ELSE inst[x]]
        /\ strong' = IF ret
                     THEN StrongAfterRelease(self.rc, StrongAfterClones(self.rc, strong, k))
                     ELSE StrongAfterClones(self.rc, strong, k)
        /\ queue' = queue \o (IF despawns THEN <<DespawnCmd(e)>> ELSE <<>>)
                          \o [j \in 1..k |-> SpawnCmd(nextId + j - 1)]
        /\ nextId' = nextId + k
        /\ last' = [rec EXCEPT !.e = e, !.path = "update", !.dt = dt,
                               !.first = nextId, !.kids = k, !.ret = ret,
                               !.ripe = last.ripe]
        /\ UNCHANGED <<pc, dt, tokens, arc, libVars>>

\* Loop body, instance not done, ErasedProjectileInst::update.
\* hk children are spawned by the user hook that runs (update_projectile, or an
\* overridden on_expire) through cx.spawn_local_space / cx.spawn_world_space.
VisitProjectile(e) ==
    /\ pc = "pass" /\ e \in pending
    /\ ~inst[e].done /\ inst[e].kind = "projectile"
    /\ \E isExp \in BOOLEAN, hk \in 0..1, api \in ContextSpawns,
          c0 \in [1..inst[e].nsp -> BOOLEAN], c1 \in [1..inst[e].nsp -> BOOLEAN],
          n \in [1..inst[e].nsp -> 0..Free], sp \in [1..inst[e].nsp -> Spaces] :
          LET i == inst[e]
              ranUpd == RunsUpdateProjectile(isExp)
              ranExp == RunsOnExpire(isExp, i.expired)
              expired == i.expired \/ ranExp
              despawns == ranExp /\ i.dexp
              rels == [j \in 1..hk |-> ContextSpawnRelation(api)] \o UpdateSpawner(c0, n, sp, 1)
              ret == ProjectileDone(expired, c1)
              self == [i EXCEPT !.lifetime = AdvanceLifetime(i.lifetime, dt),
                                !.expired = expired,
                                !.nexp = IF ranExp THEN @ + 1 ELSE @,
                                !.saw = @ \/ isExp]
          IN  /\ hk = 0 => api = "spawn_world_space"
              /\ hk = 1 => (ranUpd \/ (ranExp /\ ~i.dexp))
              /\ \A j \in 1..i.nsp : n[j] = 0 => sp[j] = "World"
              /\ \E kc \in [1..Len(rels) -> KidCfg] :
                    Dispatched(e, self, despawns, rels, kc, ret,
                               [NoVisit EXCEPT !.isExp = isExp, !.ranUpd = ranUpd,
                                               !.ranExp = ranExp, !.c0 = c0, !.c1 = c1,
                                               !.n = n, !.sp = sp, !.hk = hk, !.api = api,
                                               !.upd = UpdatedSpawners(c0, 1)])

\* Loop body, instance not done, ErasedSpawner::update.
VisitSpawner(e) ==
    /\ pc = "pass" /\ e \in pending
    /\ ~inst[e].done /\ inst[e].kind = "spawner"
    /\ \E c0 \in [1..inst[e].nsp -> BOOLEAN], c1 \in [1..inst[e].nsp -> BOOLEAN],
          n \in [1..inst[e].nsp -> 0..Free], sp \in [1..inst[e].nsp -> Spaces] :
          LET i == inst[e]
              rels == UpdateSpawner(c0, n, sp, 1)
              ret == SpawnerDone(c1, 1)
              self == [i EXCEPT !.lifetime = AdvanceLifetime(i.lifetime, dt)]
          IN  /\ \A j \in 1..i.nsp : n[j] = 0 => sp[j] = "World"
              /\ \E kc \in [1..Len(rels) -> KidCfg] :
                    Dispatched(e, self, FALSE, rels, kc, ret,
                               [NoVisit EXCEPT !.c0 = c0, !.c1 = c1, !.n = n, !.sp = sp,
                                               !.upd = UpdatedSpawners(c0, 1)])

\* Loop body, instance not done, SpawnerCluster::update: every item is drained
\* into a child spawner built with spawner_with_reference and attached with
\* spawn_related::<ChildOf>; the cluster reports done.
VisitCluster(e) ==
    /\ pc = "pass" /\ e \in pending
    /\ ~inst[e].done /\ inst[e].kind = "cluster"
    /\ LET i == inst[e]
           rels == [j \in 1..i.nsp |-> "ChildOf"]
           self == [i EXCEPT !.lifetime = AdvanceLifetime(i.lifetime, dt), !.nsp = 0]
       IN  \E kc \in [1..Len(rels) -> [nsp : 1..MaxChain, dexp : {FALSE}]] :
              Dispatched(e, self, FALSE, rels, kc, TRUE, NoVisit)

\* The pass has visited every instance; the host applies the queued commands
\* in the order they were issued.
EndPass ==
    /\ pc = "pass" /\ pending = {}
    /\ LET w == ApplyCommands(queue, [inst |-> inst, strong |-> strong])
       IN  inst' = w.inst /\ strong' = w.strong
    /\ queue' = <<>>
    /\ pc' = "idle"
    /\ dt' = 0
    /\ last' = NoVisit
    /\ UNCHANGED <<pending, nextId, tokens, arc, libVars>>

\* A frame in which no command was ever sent and no instance exists.
CmdIdle ==
    /\ node = [e \in 1..MaxNodes |-> [kind |-> "none", parent |-> 0, rel |-> "None"]]
    /\ events = <<>>
    /\ got = [e \in 1..MaxNodes |-> 0]
    /\ sent = [e \in 1..MaxNodes |-> 0]
    /\ seen = [e \in 1..MaxNodes |-> 0]
    /\ ran = {}
    /\ running = "none"
    /\ trail = [to |-> 0, got |-> <<>>]

\* No update is in progress: there is no context.
CtxIdle ==
    cx = [self |-> 0, ChildOf |-> 0, WorldSpaceChildOf |-> 0, Children |-> <<>>,
          inst |-> {}, op |-> "none", arg |-> <<>>, access |-> {}]

\* No SpawnRate has been built.
RateIdle ==
    /\ sr = [times_per_second |-> 0, meta |-> 0]
    /\ obs = [op |-> "none"]

\* No RandomBursts has been built.
BurstIdle ==
    /\ rb = [base |-> [times_per_second |-> 0, meta |-> 0], lo |-> 0, hi |-> 0, current |-> 0]
    /\ bo = [op |-> "none"]

\* No rate-driven spawner has been spawned.
ChainIdle == ms = [ticks |-> 0]

\* A variable of a specification that is not the one running.
Parked == [op |-> "none"]

OtherLibsIdle(keep) ==
    /\ keep = "wt" \/ wt = Parked
    /\ keep = "ld" \/ ld = Parked
    /\ keep = "cl" \/ cl = Parked
    /\ keep = "lm" \/ lm = Parked
    /\ keep = "bu" \/ bu = Parked
    /\ keep = "co" \/ co = Parked
    /\ keep = "sd" \/ sd = Parked
    /\ keep = "fc" \/ fc = Parked
    /\ keep = "ac" \/ ac = Parked
    /\ keep = "ws" \/ ws = Parked
    /\ keep = "nf" \/ nf = Parked
    /\ IF keep = "cmd" THEN TRUE ELSE CmdIdle
    /\ IF keep = "ctx" THEN TRUE ELSE CtxIdle
    /\ IF keep = "rate" THEN TRUE ELSE RateIdle
    /\ IF keep = "burst" THEN TRUE ELSE BurstIdle
    /\ IF keep = "chain" THEN TRUE ELSE ChainIdle

LibIdle == OtherLibsIdle("none")

RcIdle == tokens = [t \in 1..MaxTokens |-> "none"] /\ arc = 0

Init == EngineInit /\ RcIdle /\ LibIdle

Next ==
    \/ \E kind \in {"projectile", "spawner", "cluster"}, nsp \in 0..MaxChain, dexp \in BOOLEAN :
          /\ kind # "projectile" => (nsp >= 1 /\ ~dexp)
          /\ SpawnRoot(kind, nsp, dexp)
    \/ PassWithoutTime
    \/ \E d \in Dts : BeginPass(d)
    \/ \E e \in Entities : VisitDone(e)
    \/ \E e \in Entities : VisitProjectile(e)
    \/ \E e \in Entities : VisitSpawner(e)
    \/ \E e \in Entities : VisitCluster(e)
    \/ EndPass

Spec == Init /\ [][Next]_vars


\* ---------------------------------------------------- RcSpec: the token alone

Tokens == 1..MaxTokens

Held(t) == t.state \in {"Owned", "Released"}

RcInit ==
    /\ tokens = [t \in Tokens |-> IF t = 1 THEN RcNew(1) ELSE NoRc]
    /\ arc = <<1>>

\* let b = a.clone();
RcClone(a, b) ==
    /\ Held(tokens[a]) /\ tokens[b].state = "None"
    /\ tokens' = [tokens EXCEPT ![b] = tokens[a]]
    /\ arc' = StrongAfterClone(tokens[a], arc)
    /\ UNCHANGED <<engineVars, libVars>>

\* a.release();
RcRelease(a) ==
    /\ Held(tokens[a])
    /\ tokens' = [tokens EXCEPT ![a] = Release(tokens[a])]
    /\ arc' = StrongAfterRelease(tokens[a], arc)
    /\ UNCHANGED <<engineVars, libVars>>

\* drop(a);
RcDrop(a) ==
    /\ Held(tokens[a])
    /\ tokens' = [tokens EXCEPT ![a] = [@ EXCEPT !.state = "Dropped"]]
    /\ arc' = StrongAfterDrop(tokens[a], arc)
    /\ UNCHANGED <<engineVars, libVars>>

RcNext ==
    \/ \E a \in Tokens, b \in Tokens : RcClone(a, b)
    \/ \E a \in Tokens : RcRelease(a)
    \/ \E a \in Tokens : RcDrop(a)

RcSpecInit == RcInit /\ EngineIdle /\ LibIdle

RcSpec == RcSpecInit /\ [][RcNext]_vars


\* ------------------------------------- CmdSpec: commands and the frame schedule

Nodes == 1..MaxNodes
Kinds == {"projectile", "spawner", "cluster"}
Systems == {"projectile_command_system", "projectile_update"}

\* The hierarchies the engine builds: a projectile or spawner spawns projectiles
\* as local-space (ChildOf) or world-space (WorldSpaceChildOf) children, a
\* cluster spawns spawners as ChildOf children; "none" is an entity that
\* carries no ProjectileInstance.
Hierarchies ==
    {h \in [Nodes -> [kind : Kinds \cup {"none"}, parent : 0..MaxNodes,
                      rel : {"None", "ChildOf", "WorldSpaceChildOf"}]] :
        \A x \in Nodes :
            /\ h[x].parent < x
            /\ h[x].parent = 0 <=> h[x].rel = "None"
            /\ h[x].parent # 0 =>
                  /\ h[x].kind # "none"
                  /\ h[h[x].parent].kind # "none"
                  /\ h[h[x].parent].kind = "cluster" =>
                        (h[x].kind = "spawner" /\ h[x].rel = "ChildOf")
                  /\ h[h[x].parent].kind # "cluster" => h[x].kind = "projectile"}

RECURSIVE Ascending(_)
Ascending(S) ==
    IF S = {} THEN <<>>
    ELSE LET m == CHOOSE x \in S : \A y \in S : x <= y
         IN  <<m>> \o Ascending(S \ {m})

\* children.get(entity): the Children component, the ChildOf children of e in
\* the order they were attached.
ChildrenIn(h, e) == Ascending({x \in DOMAIN h : h[x].parent = e /\ h[x].rel = "ChildOf"})

ChildrenOf(e) == ChildrenIn(node, e)

\* ErasedProjectile::apply_command, the value returned ("true if propagating"):
\* ErasedSpawner and ErasedProjectileInst return false, SpawnerCluster true.
PropagatesAlways(kind) == TRUE

PropagatesNever(kind) == FALSE

Propagates(kind) == kind = "cluster"

\* apply_projectile_command: the entities whose apply_command is called, in
\* the order of the calls.
\* h is the hierarchy the two queries of projectile_command_system see.
RECURSIVE ApplyIn(_, _)
RECURSIVE ApplyToEachIn(_, _)
ApplyIn(h, e) ==
    IF h[e].kind = "none" THEN <<>>
    ELSE <<e>> \o (IF Propagates(h[e].kind) THEN ApplyToEachIn(h, ChildrenIn(h, e)) ELSE <<>>)

ApplyToEachIn(h, cs) ==
    IF cs = <<>> THEN <<>>
    ELSE ApplyIn(h, Head(cs)) \o ApplyToEachIn(h, Tail(cs))

ApplyProjectileCommand(e) == ApplyIn(node, e)

ApplyToEach(cs) == ApplyToEachIn(node, cs)

Times(x, sq) == Cardinality({k \in 1..Len(sq) : sq[k] = x})

\* ProjectilePlugin::build: both systems are in Update,
\* projectile_update .after(projectile_command_system).
SystemMayRunUnordered(sys, done) == TRUE

SystemMayRun(sys, done) ==
    sys = "projectile_update" => "projectile_command_system" \in done

CmdInit ==
    /\ node \in Hierarchies
    /\ events = <<>>
    /\ got = [e \in Nodes |-> 0]
    /\ sent = [e \in Nodes |-> 0]
    /\ seen = [e \in Nodes |-> 0]
    /\ ran = {}
    /\ running = "none"
    /\ trail = [to |-> 0, got |-> <<>>]

\* Game code sends ProjectileCommand::new(e, ..) from outside the two systems.
\* early marks an event that is in the queue when its frame begins.
SendCommand(e) ==
    /\ running = "none"
    /\ Len(events) < MaxEvents
    /\ events' = Append(events, [to |-> e, early |-> ran = {}])
    /\ sent' = IF ran = {} THEN [sent EXCEPT ![e] = @ + 1] ELSE sent
    /\ UNCHANGED <<node, got, seen, ran, running, trail, notCmd>>

\* The scheduler starts projectile_command_system.
BeginCommandSystem ==
    /\ running = "none"
    /\ "projectile_command_system" \notin ran
    /\ SystemMayRun("projectile_command_system", ran)
    /\ running' = "projectile_command_system"
    /\ UNCHANGED <<node, events, got, sent, seen, ran, trail, notCmd>>

\* for ProjectileCommand(entity, command) in reader.read(): one iteration.
ReadCommand ==
    /\ running = "projectile_command_system"
    /\ events # <<>>
    /\ LET to == Head(events).to
           applied == ApplyProjectileCommand(to)
       IN  /\ got' = [x \in Nodes |-> got[x] + Times(x, applied)]
           /\ trail' = [to |-> to, got |-> applied]
    /\ events' = Tail(events)
    /\ UNCHANGED <<node, sent, seen, ran, running, notCmd>>

\* The reader is exhausted, the system returns.
EndCommandSystem ==
    /\ running = "projectile_command_system"
    /\ events = <<>>
    /\ running' = "none"
    /\ ran' = ran \cup {"projectile_command_system"}
    /\ UNCHANGED <<node, events, got, sent, seen, trail, notCmd>>

\* The scheduler runs projectile_update: the pass sees every instance as the
\* commands applied so far have left it.
RunProjectileUpdate ==
    /\ running = "none"
    /\ "projectile_update" \notin ran
    /\ SystemMayRun("projectile_update", ran)
    /\ seen' = got
    /\ ran' = ran \cup {"projectile_update"}
    /\ UNCHANGED <<node, events, got, sent, running, trail, notCmd>>

\* Both systems have run; the next frame begins with what is still queued.
EndFrame ==
    /\ running = "none"
    /\ ran = Systems
    /\ ran' = {}
    /\ events' = [k \in 1..Len(events) |-> [events[k] EXCEPT !.early = TRUE]]
    /\ sent' = [x \in Nodes |-> Cardinality({k \in 1..Len(events) : events[k].to = x})]
    /\ got' = [x \in Nodes |-> 0]
    /\ seen' = [x \in Nodes |-> 0]
    /\ trail' = [to |-> 0, got |-> <<>>]
    /\ UNCHANGED <<node, running, notCmd>>

CmdNext ==
    \/ \E e \in Nodes : SendCommand(e)
    \/ BeginCommandSystem
    \/ ReadCommand
    \/ EndCommandSystem
    \/ RunProjectileUpdate
    \/ EndFrame

CmdSpecInit == CmdInit /\ EngineIdle /\ RcIdle /\ OtherLibsIdle("cmd")

CmdSpec == CmdSpecInit /\ [][CmdNext]_vars


\* ------------------------------ CtxSpec: what a context reaches during update

CtxEntities == 1..MaxNodes

\* Lists of distinct entities, as a RelationshipTarget component or a caller's
\* iterator holds them.
EntityLists ==
    {<<>>} \cup {<<a>> : a \in CtxEntities}
           \cup {l \in CtxEntities \X CtxEntities : l[1] # l[2]}

\* The guard every accessor applies before it uses unsafe_other:
\* x.get() != self.entity() / e != self.entity() / if entity == this { continue }.
NotSelfUnchecked(e, this) == TRUE

NotSelf(e, this) == e # this

\* unsafe_other.get(e) / get_mut(e): the query matches entities that carry a
\* ProjectileInstance; a match is an access to that entity's components.
Reach(c, e, mode) ==
    IF e \in c.inst THEN {[e |-> e, mode |-> mode]} ELSE {}

\* parent_transform::<T> and parent_global_transform::<T>, T one of the two
\* relationships; target is what entity_mut.get::<T>() holds (0 when absent).
ParentTransformAccess(c, target) ==
    IF target # 0 /\ NotSelf(target, c.self) THEN Reach(c, target, "read") ELSE {}

\* parent(): ChildOf first, else WorldSpaceChildOf, None when it is the entity itself.
Parent(c) ==
    LET e == IF c.ChildOf # 0 THEN c.ChildOf ELSE c.WorldSpaceChildOf
    IN  IF e # 0 /\ NotSelf(e, c.self) THEN e ELSE 0

\* get_from_parent.
GetFromParentAccess(c) ==
    IF Parent(c) # 0 THEN Reach(c, Parent(c), "read") ELSE {}

\* children / iter_children: the loop over the list.
RECURSIVE IterChildrenAccess(_, _)
IterChildrenAccess(c, list) ==
    IF list = <<>> THEN {}
    ELSE (IF NotSelf(Head(list), c.self) THEN Reach(c, Head(list), "write") ELSE {})
         \cup IterChildrenAccess(c, Tail(list))

\* projectile_update builds the context of the instance it is about to update.
\* The relationship components and the child list may name the entity itself:
\* the accessors are written to be safe whatever these hold.
CtxInit ==
    \E self \in CtxEntities, p \in 0..MaxNodes, wp \in 0..MaxNodes,
       ch \in EntityLists, others \in SUBSET CtxEntities :
        cx = [self |-> self, ChildOf |-> p, WorldSpaceChildOf |-> wp, Children |-> ch,
              inst |-> others \cup {self}, op |-> "none", arg |-> <<>>, access |-> {}]

Called(op, arg, access) ==
    /\ cx.self # 0
    /\ cx' = [cx EXCEPT !.op = op, !.arg = arg, !.access = access]
    /\ UNCHANGED notCtx

CallParentTransform(rel) ==
    Called("parent_transform", <<cx[rel]>>, ParentTransformAccess(cx, cx[rel]))

CallParentGlobalTransform(rel) ==
    Called("parent_global_transform", <<cx[rel]>>, ParentTransformAccess(cx, cx[rel]))

CallGetFromParent ==
    Called("get_from_parent", <<>>, GetFromParentAccess(cx))

CallChildren ==
    Called("children", cx.Children, IterChildrenAccess(cx, cx.Children))

CallIterChildren(list) ==
    Called("iter_children", list, IterChildrenAccess(cx, list))

CtxNext ==
    \/ \E rel \in {"ChildOf", "WorldSpaceChildOf"} : CallParentTransform(rel)
    \/ \E rel \in {"ChildOf", "WorldSpaceChildOf"} : CallParentGlobalTransform(rel)
    \/ CallGetFromParent
    \/ CallChildren
    \/ \E list \in EntityLists : CallIterChildren(list)

CtxSpecInit == CtxInit /\ EngineIdle /\ RcIdle /\ OtherLibsIdle("ctx")

CtxSpec == CtxSpecInit /\ [][CtxNext]_vars


\* ------------------------------------------- RateSpec: the SpawnRate controller

\* Rounding of an exact result to f32, to nearest, ties to even.
RECURSIVE Ulp(_)
Ulp(x) == IF x < F32Mantissa THEN 1 ELSE 2 * Ulp(x \div 2)

F32Near(x) ==
    LET u == Ulp(x)
        q == x \div u
        r == x % u
    IN  IF 2 * r < u \/ (2 * r = u /\ q % 2 = 0) THEN q * u ELSE (q + 1) * u

F32(x) == IF x >= 0 THEN F32Near(x) ELSE 0 - F32Near(0 - x)

\* f32::floor as a count of whole units, f32::fract = x - x.trunc(), and the
\* saturating cast "as usize".
Floor(x) == x \div One
Fract(x) == IF x >= 0 THEN x % One ELSE 0 - ((0 - x) % One)
AsUsize(k) == IF k < 0 THEN 0 ELSE k

\* SpawnRate::new.
SpawnRateNew(r) == [times_per_second |-> r, meta |-> 0]

\* SpawnRate::with_spawn_immediately / spawn_immediately: self.meta += times as f32.
SpawnImmediatelySets(s, n) == [s EXCEPT !.meta = n * One]

SpawnImmediately(s, n) == [s EXCEPT !.meta = F32(@ + n * One)]

\* SpawnRate::update: self.meta += self.times_per_second * dt.
\* times_per_second is a whole number of units per second, d a time in units.
SpawnRateUpdate(s, d) == [s EXCEPT !.meta = F32(@ + F32(s.times_per_second * d))]

\* SpawnRate::try_spawn: what it returns and what it leaves.
CanSpawn(s) == s.meta >= One

AfterTrySpawnDropsRemainder(s) == IF CanSpawn(s) THEN [s EXCEPT !.meta = 0] ELSE s

AfterTrySpawn(s) == IF CanSpawn(s) THEN [s EXCEPT !.meta = F32(@ - One)] ELSE s

\* SpawnRate::spawn_count (util.rs: spawns): floor, fract, as usize.
SpawnCountCeil(s) == AsUsize(Floor(s.meta + One - 1))

SpawnCount(s) == AsUsize(Floor(s.meta))

AfterSpawnCount(s) == [s EXCEPT !.meta = Fract(@)]

\* ProjectileSpawning::spawn_count, the default: try_spawn until it fails.
RECURSIVE DrainByTrySpawn(_, _)
DrainByTrySpawn(s, k) ==
    IF CanSpawn(s) THEN DrainByTrySpawn(AfterTrySpawn(s), k + 1)
    ELSE [count |-> k, left |-> s]

\* Rates in whole spawns per second; frame times 1/60 s, 1 - 2^-24 s and 1.5 s
\* as f32 values in units.
Rates == {-1, 0, 1, 2, 4}
FrameTimes == {8947849, 536870880, 805306368}

\* The accumulator is kept within MaxHalves half units of zero.
MetaCap == MaxHalves * (One \div 2)

Abs(x) == IF x >= 0 THEN x ELSE 0 - x

\* The exact amount due, rate * elapsed time plus what was pre-loaded, kept as
\* whole units and a remainder in [0, One).
DuePlus(due, x) ==
    [whole |-> due.whole + ((due.frac + x) \div One), frac |-> (due.frac + x) % One]

NoRun == [live |-> FALSE, base |-> 0, n |-> 0, ok |-> 0]

RateInit ==
    \E r \in Rates, d \in FrameTimes :
        /\ r # 0 => d <= MetaCap \div Abs(r)
        /\ sr = SpawnRateNew(r)
        /\ obs = [op |-> "new", dt |-> d, ret |-> 0, before |-> SpawnRateNew(r),
                  spawns |-> 0, due |-> [whole |-> 0, frac |-> 0],
                  ticks |-> 0, adds |-> 0, pre |-> 0, run |-> NoRun]

\* rate.spawn_immediately(n) (or with_spawn_immediately(n) while building).
RateSpawnImmediately(n) ==
    /\ obs.op # "none"
    /\ obs.pre + n <= MaxPreload
    /\ sr.meta <= MetaCap - n * One
    /\ sr' = SpawnImmediately(sr, n)
    /\ obs' = [obs EXCEPT !.op = "spawn_immediately", !.ret = n, !.before = sr,
                          !.pre = @ + n,
                          !.adds = IF n > 0 THEN @ + 1 ELSE @,
                          !.due = [@ EXCEPT !.whole = @ + n],
                          !.run = IF @.live THEN [@ EXCEPT !.n = @ + n]
                                  ELSE [live |-> TRUE, base |-> sr.meta, n |-> n, ok |-> 0]]
    /\ UNCHANGED notRate

\* rate.update(dt), dt the frame time or zero.
RateUpdate(d) ==
    /\ obs.op # "none"
    /\ obs.ticks < MaxTicks
    /\ IF sr.times_per_second >= 0
       THEN sr.meta <= MetaCap - sr.times_per_second * d
       ELSE sr.meta >= 0 - (MetaCap + sr.times_per_second * d)
    /\ sr' = SpawnRateUpdate(sr, d)
    /\ obs' = [obs EXCEPT !.op = "update", !.ret = 0, !.before = sr,
                          !.ticks = IF d > 0 THEN @ + 1 ELSE @,
                          !.adds = IF d > 0 THEN @ + 1 ELSE @,
                          !.due = DuePlus(@, sr.times_per_second * d),
                          !.run = NoRun]
    /\ UNCHANGED notRate

\* rate.try_spawn().
RateTrySpawn ==
    /\ obs.op # "none"
    /\ sr' = AfterTrySpawn(sr)
    /\ obs' = [obs EXCEPT !.op = "try_spawn", !.ret = IF CanSpawn(sr) THEN 1 ELSE 0,
                          !.before = sr,
                          !.spawns = IF CanSpawn(sr) THEN @ + 1 ELSE @,
                          !.run = IF @.live /\ CanSpawn(sr) THEN [@ EXCEPT !.ok = @ + 1]
                                  ELSE @]
    /\ UNCHANGED notRate

\* rate.spawn_count().
RateSpawnCount ==
    /\ obs.op # "none"
    /\ sr' = AfterSpawnCount(sr)
    /\ obs' = [obs EXCEPT !.op = "spawn_count", !.ret = SpawnCount(sr), !.before = sr,
                          !.spawns = @ + SpawnCount(sr),
                          !.run = NoRun]
    /\ UNCHANGED notRate

RateNext ==
    \/ \E n \in 0..MaxPreload : RateSpawnImmediately(n)
    \/ \E d \in {0, obs.dt} : RateUpdate(d)
    \/ RateTrySpawn
    \/ RateSpawnCount

RateSpecInit == RateInit /\ EngineIdle /\ RcIdle /\ OtherLibsIdle("rate")

RateSpec == RateSpecInit /\ [][RateNext]_vars


\* --------------------------------------------- BurstSpec: spawning in bursts

\* ProjectileSpawning::in_random_bursts(min, max); in_bursts(x) is the range x..=x.
InRandomBursts(base, min, max) == [base |-> base, lo |-> min, hi |-> max, current |-> 0]

InBursts(base, x) == InRandomBursts(base, x, x)

\* RandomBursts::try_spawn, a burst of spawns begins: self.current = spawns - 1.
BurstLeftAll(spawns) == spawns

BurstLeft(spawns) == spawns - 1

\* RandomBursts::try_spawn; spawns is what rng.usize(range) draws.
BurstTrySpawnRet(b, spawns) ==
    IF b.current > 0 THEN TRUE
    ELSE IF CanSpawn(b.base) THEN spawns # 0
    ELSE FALSE

AfterBurstTrySpawn(b, spawns) ==
    IF b.current > 0 THEN [b EXCEPT !.current = @ - 1]
    ELSE IF CanSpawn(b.base)
         THEN [b EXCEPT !.base = AfterTrySpawn(@),
                        !.current = IF spawns = 0 THEN @ ELSE BurstLeft(spawns)]
    ELSE b

\* RandomBursts::update: self.base.update(dt).
AfterBurstUpdate(b, d) == [b EXCEPT !.base = SpawnRateUpdate(@, d)]

\* The base is a SpawnRate, possibly with one unit pre-loaded; frames of half
\* a second.
BurstRates == {0, 1, 2, 4}
HalfSecond == One \div 2

BurstInit ==
    \E r \in BurstRates, k \in 0..1, lo \in 0..MaxBurst, hi \in 0..MaxBurst :
        /\ lo <= hi
        /\ rb = InRandomBursts(SpawnImmediately(SpawnRateNew(r), k), lo, hi)
        /\ bo = [op |-> "new", ret |-> FALSE, grants |-> 0, ok |-> 0, ticks |-> 0,
                 before |-> InRandomBursts(SpawnImmediately(SpawnRateNew(r), k), lo, hi)]

\* bursts.update(dt).
BurstUpdate ==
    /\ bo.op # "none"
    /\ bo.ticks < MaxBurstTicks
    /\ rb.base.meta <= MetaCap - rb.base.times_per_second * HalfSecond
    /\ rb' = AfterBurstUpdate(rb, HalfSecond)
    /\ bo' = [bo EXCEPT !.op = "update", !.ret = FALSE, !.ticks = @ + 1, !.before = rb]
    /\ UNCHANGED notBurst

\* bursts.try_spawn().
BurstTrySpawn ==
    /\ bo.op # "none"
    /\ \E spawns \in rb.lo..rb.hi :
          /\ rb' = AfterBurstTrySpawn(rb, spawns)
          /\ bo' = [bo EXCEPT !.op = "try_spawn",
                              !.ret = BurstTrySpawnRet(rb, spawns),
                              !.grants = IF rb.current = 0 /\ CanSpawn(rb.base)
                                         THEN @ + 1 ELSE @,
                              !.ok = IF BurstTrySpawnRet(rb, spawns) THEN @ + 1 ELSE @,
                              !.before = rb]
    /\ UNCHANGED notBurst

BurstNext ==
    \/ BurstUpdate
    \/ BurstTrySpawn

BurstSpecInit == BurstInit /\ EngineIdle /\ RcIdle /\ OtherLibsIdle("burst")

BurstSpec == BurstSpecInit /\ [][BurstNext]_vars


\* ---------------------------- ChainSpec: a root spawner driven by a SpawnRate

\* examples/chaining.rs, MySpawner::update: self.rate.update(dt).
MySpawnerUpdateTwice(s, d) == SpawnRateUpdate(SpawnRateUpdate(s, d), d)

MySpawnerUpdate(s, d) == SpawnRateUpdate(s, d)

\* update_spawner's loop over MySpawner::spawn_projectile (self.rate.spawn(..)):
\* one child per unit taken, each built with new_with_reference(.., cx.rc).
RECURSIVE ClonesOf(_, _)
ClonesOf(rc, k) == IF k = 0 THEN <<>> ELSE <<rc>> \o ClonesOf(rc, k - 1)

ChainRates == {1, 2, 4}
ChainFrameTimes == {8947849, 17895698}

\* commands.spawn(ProjectileInstance::spawner(MySpawner { rate: SpawnRate::new(r), .. })).
ChainInit ==
    \E r \in ChainRates, d \in ChainFrameTimes :
        ms = [ticks |-> 0, dt |-> d, rate |-> SpawnRateNew(r), rc |-> RcNew(1),
              strong |-> <<1>>, kids |-> <<>>, acc |-> 0, made |-> 0]

\* One dispatched update of the root: ErasedSpawner::update, update_spawner.
\* MySpawner::is_complete is false, so the rate is updated and drained.
ChainTick ==
    /\ ms.ticks < MaxTicks
    /\ "dt" \in DOMAIN ms
    /\ LET updated == MySpawnerUpdate(ms.rate, ms.dt)
           drained == DrainByTrySpawn(updated, 0)
       IN  ms' = [ms EXCEPT !.ticks = @ + 1,
                            !.rate = drained.left,
                            !.acc = updated.meta,
                            !.made = drained.count,
                            !.kids = @ \o ClonesOf(ms.rc, drained.count),
                            !.strong = StrongAfterClones(ms.rc, @, drained.count)]
    /\ UNCHANGED notChain

ChainNext == ChainTick

ChainSpecInit == ChainInit /\ EngineIdle /\ RcIdle /\ OtherLibsIdle("chain")

ChainSpec == ChainSpecInit /\ [][ChainNext]_vars


\* ------------------------------------------------------------------ helpers

InWorld(e) == inst[e].st = "live"
Built(e) == inst[e].st \in {"queued", "live"}

\* The instances (in the world or waiting in the command queue) whose token
\* is an Owned clone of counter c.
Owners(c) ==
    {x \in Entities : Built(x) /\ inst[x].rc.state = "Owned" /\ inst[x].rc.counter = c}

RECURSIVE RootOf(_)
RootOf(e) == IF inst[e].parent = 0 THEN e ELSE RootOf(inst[e].parent)

Dispatch(kind) == last.path = "update" /\ inst[last.e].kind = kind

\* Children the last dispatched update created, and where the children of the
\* j-th spawner of the chain start among them.
LastKids == last.first..(last.first + last.kids - 1)

RECURSIVE SpawnedBefore(_)
SpawnedBefore(j) ==
    IF j <= 1 THEN last.hk
    ELSE SpawnedBefore(j - 1) + (IF last.c0[j - 1] THEN 0 ELSE last.n[j - 1])

\* ------------------------------------------------------------------- claims

\* C1: a root instance's entity leaves the world (driver removal or a despawn
\* issued from its own update, e.g. the default on_expire) only when the
\* instance is done, is root, and no clone of its token is still Owned.
C1_RootRemovedOnlyWhenReleased ==
    [][\A e \in Entities :
          (InWorld(e) /\ inst[e].root /\ inst'[e].st = "gone")
              => (inst[e].done /\ Owners(inst[e].rc.counter) = {})]_vars

\* C2: should_drop() is false on an Owned token, false on a Released token
\* while any clone is Owned, true on a Released token as soon as no clone is
\* Owned (the last one released or dropped), and once true it stays true.
C2_ShouldDropFlipsOnce ==
    [][/\ \A t \in Tokens : Held(tokens'[t]) =>
              (ShouldDrop(tokens'[t], arc') <=>
                  (/\ tokens'[t].state = "Released"
                   /\ \A u \in Tokens : tokens'[u].state # "Owned"))
       /\ \A t \in Tokens :
              (Held(tokens[t]) /\ ShouldDrop(tokens[t], arc) /\ Held(tokens'[t]))
                  => ShouldDrop(tokens'[t], arc')]_vars

C2_Witness ==
    /\ tokens[1].state = "Released" /\ ShouldDrop(tokens[1], arc)
    /\ \E t, u \in Tokens : /\ t # 1 /\ u # 1 /\ t # u
                            /\ tokens[t].state = "Released"
                            /\ tokens[u].state = "Dropped"

\* C3: on_expire has run exactly once for an instance whose is_expired has
\* returned true at some tick, and not at all otherwise: it runs on the first
\* such tick and never again.
C3_OnExpireOnce ==
    \A e \in Entities :
        inst[e].kind = "projectile" => inst[e].nexp = (IF inst[e].saw THEN 1 ELSE 0)

C3_Witness ==
    /\ Dispatch("projectile")
    /\ last.isExp /\ ~last.ranExp
    /\ inst[last.e].nexp = 1

\* C4: the projectile adapter's update returns true exactly when on_expire has
\* run (this tick or earlier) and the projectile has no spawner or every
\* spawner of its chain reports complete in this tick.
C4_ProjectileDoneIff ==
    Dispatch("projectile") =>
        (last.ret <=> (/\ inst[last.e].nexp >= 1
                       /\ \A j \in 1..Len(last.c1) : last.c1[j]))

C4_Witness ==
    /\ Dispatch("projectile")
    /\ Len(last.c1) >= 1 /\ last.ret
    /\ ~last.ranExp /\ inst[last.e].lifetime = MaxLifetime

\* C5: the spawner adapter's update returns true (the instance is done) in a
\* tick exactly when every spawner of the extension chain reports complete in
\* that tick.
C5_SpawnerDoneIff ==
    Dispatch("spawner") =>
        /\ last.ret <=> \A j \in 1..Len(last.c1) : last.c1[j]
        /\ inst[last.e].done <=> last.ret

C5_Witness ==
    /\ Dispatch("spawner")
    /\ Len(last.c1) = 2 /\ last.c0 = <<TRUE, FALSE>> /\ last.c1 = <<TRUE, TRUE>>
    /\ inst[last.e].lifetime = 2 /\ inst[last.e].done

\* C6: visiting a done instance, the driver queues its removal exactly when it
\* is root and its token reports should_drop, and skips it otherwise.
C6_DriverRemovalIff ==
    last.path \in {"remove", "skip"} =>
        LET i == inst[last.e] IN
        /\ i.done
        /\ last.path = "remove" <=> (i.root /\ Owners(i.rc.counter) = {})
        /\ last.path = "remove" => queue[Len(queue)] = DespawnCmd(last.e)
        /\ last.path = "skip" => \A k \in 1..Len(queue) : queue[k] # DespawnCmd(last.e)

C6_Witness ==
    /\ last.path = "remove"
    /\ \E x \in Entities : InWorld(x) /\ ~inst[x].root /\ inst[x].done

\* C7: lifetime grows by exactly dt in a tick in which the instance is visited
\* while not done and is unchanged otherwise; done never reverts; a done
\* instance is never dispatched an update and nothing of it changes.
C7_LifetimeAndTombstone ==
    [][\A e \in Entities : (InWorld(e) /\ inst'[e].st = "live") =>
          LET visited == e \in pending /\ e \notin pending' IN
          /\ inst[e].done => inst'[e] = inst[e]
          /\ (visited /\ ~inst[e].done) => inst'[e].lifetime = inst[e].lifetime + dt
          /\ ~visited => inst'[e].lifetime = inst[e].lifetime
          /\ (visited /\ last'.path = "update") => ~inst[e].done]_vars

C7_Witness ==
    \E e \in Entities :
        /\ last.e = e /\ last.path = "skip"
        /\ inst[e].lifetime = 1 /\ dt = 2

\* C8: done holds exactly when the token is Released, and a token goes from
\* Owned to Released only in the step in which a dispatched update returned
\* true and done was set.
C8_DoneIffReleased ==
    /\ [](\A e \in Entities : Built(e) => (inst[e].done <=> inst[e].rc.state = "Released"))
    /\ [][\A e \in Entities :
             (inst[e].rc.state = "Owned" /\ inst'[e].rc.state = "Released")
                 => (/\ ~inst[e].done /\ inst'[e].done
                     /\ last'.e = e /\ last'.path = "update" /\ last'.ret)]_vars

C8_Witness ==
    /\ pc = "idle"
    /\ \E e, x \in Entities :
          /\ InWorld(e) /\ inst[e].done /\ inst[e].rc.state = "Released"
          /\ InWorld(x) /\ ~inst[x].done /\ inst[x].rc.state = "Owned"
          /\ inst[x].lifetime >= 1

\* C9: an instance spawned through the engine is non-root and holds a clone of
\* the counter of the root it descends from; an instance built by a public
\* constructor is root and holds a fresh counter, owned by it alone until it
\* spawns.  The Arc's strong count is the number of Owned clones.
C9_RootsAndClones ==
    \A e \in Entities : inst[e].st # "none" =>
        /\ inst[e].parent # 0 =>
              /\ ~inst[e].root
              /\ inst[e].rc.counter = inst[inst[e].parent].rc.counter
              /\ inst[RootOf(e)].root
              /\ inst[e].rc.counter = inst[RootOf(e)].rc.counter
        /\ inst[e].parent = 0 =>
              /\ inst[e].root
              /\ inst[e].rc.counter = e
              /\ (\A x \in Entities : inst[x].parent # e) =>
                     strong[e] = (IF Built(e) /\ ~inst[e].done THEN 1 ELSE 0)
        /\ strong[e] = Cardinality(Owners(e))

C9_Witness ==
    \E e \in Entities :
        /\ inst[e].parent # 0 /\ inst[inst[e].parent].parent # 0
        /\ Built(e) /\ inst[e].rc.state = "Owned"

\* C10: the children a spawner step creates are one per Some that
\* spawn_projectile returned before its first None, none for a spawner that
\* was complete; each is non-root, has lifetime 0 and done false, holds an
\* Owned clone of the instance's token, and carries ChildOf when space() is
\* Local and WorldSpaceChildOf when it is World.
C10_SpawnLoop ==
    (Dispatch("projectile") \/ Dispatch("spawner")) =>
        /\ last.kids = SpawnedBefore(Len(last.c0) + 1)
        /\ \A j \in 1..Len(last.c0) : ~last.c0[j] =>
              \A k \in 1..last.n[j] :
                  LET c == inst[last.first + SpawnedBefore(j) + k - 1] IN
                  /\ c.st = "queued" /\ c.kind = "projectile"
                  /\ ~c.root /\ c.lifetime = 0 /\ ~c.done /\ ~c.expired
                  /\ c.parent = last.e
                  /\ c.rc = [state |-> "Owned", counter |-> inst[last.e].rc.counter]
                  /\ last.sp[j] = "Local" => c.rel = "ChildOf"
                  /\ last.sp[j] = "World" => c.rel = "WorldSpaceChildOf"
        /\ \A x \in LastKids : SpawnCmd(x) \in {queue[k] : k \in 1..Len(queue)}

C10_Witness ==
    /\ Dispatch("spawner")
    /\ ~last.c0[1] /\ last.n[1] = 2 /\ last.sp[1] = "Local"
    /\ inst[last.first + 1].rel = "ChildOf"

\* C11: a spawner of the chain that reports is_complete when its step begins
\* gets neither update nor spawn_projectile in that tick (no child comes from
\* it), while the spawners after it in the extension chain are still stepped:
\* each one that is not complete is updated and spawns its children.
C11_CompleteSpawnerSkipped ==
    (Dispatch("projectile") \/ Dispatch("spawner")) =>
        LET made == {x \in Entities : /\ x >= last.first
                                      /\ inst[x].st = "queued"
                                      /\ inst[x].parent = last.e}
            live == {j \in 1..Len(last.c0) : ~last.c0[j]}
            from(j) == {x \in made :
                          /\ x >= last.first + SpawnedBefore(j)
                          /\ x < last.first + SpawnedBefore(j + 1)}
        IN  /\ last.upd = live
            /\ \A j \in 1..Len(last.c0) :
                  /\ last.c0[j] => from(j) = {}
                  /\ ~last.c0[j] =>
                        /\ Cardinality(from(j)) = last.n[j]
                        /\ \A x \in from(j) :
                              inst[x].rel = IF last.sp[j] = "Local" THEN "ChildOf"
                                            ELSE "WorldSpaceChildOf"
            /\ Cardinality(made) = last.hk + Cardinality(UNION {from(j) : j \in live})

C11_Witness ==
    /\ Dispatch("spawner")
    /\ Len(last.c0) = 2 /\ last.c0[1] /\ ~last.c0[2]
    /\ last.n[1] >= 1 /\ last.n[2] = 1
    /\ last.upd = {2}
    /\ last.kids = 1
    /\ inst[last.first].st = "queued" /\ inst[last.first].parent = last.e

\* C12: a projectile that exposes a spawner has the spawner step run in every
\* dispatched update, before and after its expiry; once it has expired it is
\* not marked done while its chain is not complete, and it stays in the world,
\* visited and spawning each tick, until the chain reports complete.
C12_SpawnerRunsPastExpiry ==
    [][/\ \A e \in Entities :
             (/\ InWorld(e) /\ inst[e].kind = "projectile" /\ inst[e].nsp >= 1
              /\ inst[e].expired /\ ~inst[e].done) => inst'[e].st = "live"
       /\ (/\ last'.path = "update" /\ inst'[last'.e].kind = "projectile"
           /\ inst'[last'.e].nsp >= 1) =>
              /\ last'.upd = {j \in 1..Len(last'.c0) : ~last'.c0[j]}
              /\ (\E j \in 1..Len(last'.c1) : ~last'.c1[j]) => ~inst'[last'.e].done]_vars

\* Hierarchy descendants of e, through either relation.
RECURSIVE Below(_, _)
Below(x, e) ==
    /\ node[x].parent # 0
    /\ (node[x].parent = e \/ Below(node[x].parent, e))

\* x is e, or a local-space child of an instance that passes commands on and
\* that is itself reached from e in this way.
RECURSIVE PassedDown(_, _)
PassedDown(x, e) ==
    \/ x = e
    \/ /\ node[x].parent # 0
       /\ node[x].rel = "ChildOf"
       /\ node[node[x].parent].kind = "cluster"
       /\ PassedDown(node[x].parent, e)

Pos(x, sq) == CHOOSE k \in 1..Len(sq) : sq[k] = x

\* C13 as stated: a command addressed to a live instance E is applied to E
\* exactly once and, unless E intercepts it (does not pass it on), exactly once
\* to every hierarchy descendant of E, local-space or world-space.
C13_CommandReachesDescendants ==
    (trail.to # 0 /\ node[trail.to].kind # "none") =>
        /\ Times(trail.to, trail.got) = 1
        /\ Propagates(node[trail.to].kind) =>
              \A d \in Nodes : Below(d, trail.to) => Times(d, trail.got) = 1

\* C13 amended: the command is applied to E exactly once; it goes further only
\* below an instance whose apply_command returns true, which only a
\* SpawnerCluster does, and then only to its local-space children (Children),
\* each exactly once, parents before children in attachment order.  The
\* descendants of a projectile or spawner instance, and world-space children,
\* never receive it; a command addressed to an entity without an instance is
\* applied to nothing.
C13_CommandAppliedOncePassedDownByCluster ==
    trail.to # 0 =>
        /\ node[trail.to].kind = "none" => trail.got = <<>>
        /\ node[trail.to].kind # "none" =>
              /\ \A x \in Nodes :
                    Times(x, trail.got) = IF PassedDown(x, trail.to) THEN 1 ELSE 0
              /\ trail.got[1] = trail.to
              /\ \A x \in Nodes, y \in Nodes :
                    (/\ x # y /\ PassedDown(x, trail.to) /\ PassedDown(y, trail.to)
                     /\ Pos(x, trail.got) < Pos(y, trail.got)) =>
                        (PassedDown(y, x) \/ (~PassedDown(x, y) /\ x < y))

C13_Witness ==
    /\ trail.to = 1 /\ trail.got = <<1, 2>>
    /\ node[1].kind = "cluster" /\ node[2].kind = "spawner"
    /\ node[3].kind = "projectile" /\ node[3].parent = 2

\* C14: when projectile_update runs in a frame, projectile_command_system has
\* already read every command that was queued when the frame began, and each
\* of them has been applied to the instance it addresses.
C14_CommandsBeforeUpdate ==
    "projectile_update" \in ran =>
        /\ \A k \in 1..Len(events) : ~events[k].early
        /\ \A x \in Nodes : node[x].kind # "none" => seen[x] >= sent[x]

C14_Witness ==
    /\ "projectile_update" \in ran
    /\ \E x \in Nodes : node[x].kind = "projectile" /\ sent[x] = 2 /\ seen[x] = 2

\* C15: no context operation that reaches other instances (children,
\* iter_children, parent_transform, parent_global_transform, get_from_parent)
\* reads or mutates the instance being updated, even when that entity is in
\* the child list or is named as its own parent.
C15_ContextNeverReachesSelf ==
    \A a \in cx.access : a.e # cx.self

C15_Witness ==
    /\ cx.op = "iter_children"
    /\ \E k \in 1..Len(cx.arg) : cx.arg[k] = cx.self
    /\ cx.ChildOf = cx.self
    /\ \E a \in cx.access : a.mode = "write"

\* How far the spawns made so far are from the exact amount due, in units.
Behind == (obs.due.whole - obs.spawns) * One + obs.due.frac

Drained == obs.op = "try_spawn" /\ obs.ret = 0

\* C16 as stated: for a rate >= 0 and frame times >= 0, whenever try_spawn has
\* just returned false the accumulator is in [0, 1) and the spawns made so far
\* differ from rate * elapsed time plus the pre-loaded units by less than one.
C16_AccumulatorExact ==
    (sr.times_per_second >= 0 /\ Drained) =>
        /\ 0 <= sr.meta /\ sr.meta < One
        /\ Abs(Behind) < One

\* C16 amended: the accumulator after a drain is in [0, 1), and the spawns
\* differ from rate * elapsed time plus the pre-loaded units by less than one
\* unit plus the rounding error of the f32 additions made so far, at most
\* 2^-23 (64 units of 2^-29) for each update or pre-load.
C16_AccumulatorWithinRounding ==
    (sr.times_per_second >= 0 /\ Drained) =>
        /\ 0 <= sr.meta /\ sr.meta < One
        /\ Abs(Behind) < One + 64 * obs.adds

C16_Witness ==
    /\ Drained /\ sr.times_per_second = 1
    /\ obs.ticks = 60 /\ obs.pre = 0
    /\ obs.due.whole = 1 /\ obs.spawns = 0
    /\ sr.meta < One

C18_BurstOfExactlyN ==
    (bo.op # "none" /\ rb.lo = rb.hi) =>
        /\ bo.ok + rb.current = rb.lo * bo.grants
        /\ bo.op = "try_spawn" =>
              /\ bo.before.current > 0 => (bo.ret /\ rb.base = bo.before.base)
              /\ bo.ret => (bo.before.current > 0 \/ CanSpawn(bo.before.base))
              /\ (bo.before.current = 0 /\ CanSpawn(bo.before.base)) =>
                    /\ rb.base.meta = bo.before.base.meta - One
                    /\ rb.current = IF rb.lo = 0 THEN 0 ELSE rb.lo - 1

C18_Witness ==
    /\ rb.lo = 3 /\ rb.hi = 3
    /\ bo.grants = 1 /\ bo.ok = 3 /\ rb.current = 0
    /\ bo.op = "try_spawn" /\ ~bo.ret
    /\ bo.ticks >= 1

\* C19: a root spawner driven by a SpawnRate of 4 per second has, after 60
\* ticks of 1/60 s, spawned between 3 and 5 children; no child is spawned on a
\* tick where the accumulator is below one unit; every child holds an Owned
\* clone of the root's token.
C19_FourPerSecond ==
    ms.ticks > 0 =>
        /\ (ms.rate.times_per_second = 4 /\ ms.dt = 8947849 /\ ms.ticks = 60) =>
              (3 <= Len(ms.kids) /\ Len(ms.kids) <= 5)
        /\ ms.acc < One => ms.made = 0
        /\ \A k \in 1..Len(ms.kids) :
              ms.kids[k].state = "Owned" /\ ms.kids[k].counter = ms.rc.counter
        /\ ms.strong[ms.rc.counter] = 1 + Len(ms.kids)

C19_Witness ==
    /\ ms.ticks = 60
    /\ ms.rate.times_per_second = 4 /\ ms.dt = 8947849
    /\ Len(ms.kids) = 4
    /\ ms.strong[ms.rc.counter] = 5

\* C21: release() is idempotent.  For a held token in either state, whatever
\* the other clones are, releasing it twice leaves the token and the strong
\* count of the shared counter exactly as releasing it once does; a release()
\* step on an already Released token changes neither the tokens nor the count.
C21_ReleaseIdempotent ==
    [][/\ \A t \in Tokens : Held(tokens[t]) =>
              LET once == Release(tokens[t])
                  arc1 == StrongAfterRelease(tokens[t], arc)
              IN  /\ Release(once) = once
                  /\ StrongAfterRelease(once, arc1) = arc1
                  /\ tokens[t].state = "Released" => (once = tokens[t] /\ arc1 = arc)
       /\ \A t \in Tokens :
              (/\ Held(tokens[t])
               /\ tokens' = [tokens EXCEPT ![t] = Release(tokens[t])]
               /\ arc' = StrongAfterRelease(tokens[t], arc)) =>
                  /\ Release(tokens'[t]) = tokens'[t]
                  /\ StrongAfterRelease(tokens'[t], arc') = arc'
                  /\ Cardinality({u \in Tokens : tokens'[u].state = "Owned"}) = arc'[1]]_vars

C21_Witness ==
    /\ tokens[1].state = "Released"
    /\ arc = <<2>>
    /\ Cardinality({u \in Tokens : tokens[u].state = "Owned"}) = 2
    /\ \E t \in Tokens : t # 1 /\ tokens[t].state = "Released"

\* ------------------- TransformSpec: what a world-space child reads of its parent

\* Entity 1 is the parent, entity 2 its world-space child: 2 carries
\* WorldSpaceChildOf(1) and a ProjectileInstance.  A Transform is a position in
\* 0..MaxPos, 0 standing for Transform::IDENTITY, the Default value.
Positions == 0..MaxPos

\* parent_transform::<T> / parent_global_transform::<T>: the relationship
\* target, unless it is the entity itself, looked up in the query of
\* ProjectileInstances; t is the component found there.  Anything else is
\* unwrap_or_default().
ParentTransformAlwaysDefault(target, self, kind, t) == 0

ParentTransformOf(target, self, kind, t) ==
    IF target # 0 /\ NotSelf(target, self) /\ kind = "instance" THEN t ELSE 0

\* The parent is an instance (the engine's own spawns) or an entity without
\* one (a child attached by game code, detach_to_world_space).
WtInit ==
    \E kind \in {"instance", "plain"}, t \in Positions :
        wt = [kind |-> kind, t |-> t, g |-> t, start |-> t, phase |-> "idle",
              visited |-> {}, read |-> -1, readg |-> -1, pfirst |-> FALSE,
              upd |-> t, ticks |-> 0]

\* A system of the game moves the parent before projectile_update runs.
WtHostMoves(new) ==
    /\ wt.phase = "idle"
    /\ new # wt.t
    /\ wt' = [wt EXCEPT !.t = new, !.upd = new]
    /\ UNCHANGED notWt

\* projectile_update starts: the tick's pass over the instances begins.
WtBeginPass ==
    /\ wt.phase = "idle"
    /\ wt.ticks < MaxWtTicks
    /\ wt' = [wt EXCEPT !.phase = "pass", !.start = wt.t, !.upd = wt.t, !.visited = {},
                        !.read = -1, !.readg = -1, !.pfirst = FALSE]
    /\ UNCHANGED notWt

\* The pass visits the parent: its update_projectile writes cx.transform.
WtVisitParent(new) ==
    /\ wt.phase = "pass" /\ wt.kind = "instance" /\ 1 \notin wt.visited
    /\ wt' = [wt EXCEPT !.t = new, !.upd = new, !.visited = @ \cup {1}]
    /\ UNCHANGED notWt

\* The pass visits the child: its update_projectile calls
\* cx.parent_transform::<WorldSpaceChildOf>() and
\* cx.parent_global_transform::<WorldSpaceChildOf>().
WtVisitChild ==
    /\ wt.phase = "pass" /\ 2 \notin wt.visited
    /\ wt' = [wt EXCEPT !.read = ParentTransformOf(1, 2, wt.kind, wt.t),
                        !.readg = ParentTransformOf(1, 2, wt.kind, wt.g),
                        !.pfirst = 1 \in wt.visited,
                        !.visited = @ \cup {2}]
    /\ UNCHANGED notWt

\* The pass is over; PostUpdate propagates Transform into GlobalTransform (the
\* parent has no ChildOf parent of its own).
WtEndFrame ==
    /\ wt.phase = "pass"
    /\ wt.visited = (IF wt.kind = "instance" THEN {1, 2} ELSE {2})
    /\ wt' = [wt EXCEPT !.phase = "idle", !.g = wt.t, !.ticks = @ + 1]
    /\ UNCHANGED notWt

WtNext ==
    \/ \E new \in Positions : WtHostMoves(new)
    \/ WtBeginPass
    \/ \E new \in Positions : WtVisitParent(new)
    \/ WtVisitChild
    \/ WtEndFrame

TransformSpecInit == WtInit /\ EngineIdle /\ RcIdle /\ OtherLibsIdle("wt")

TransformSpec == TransformSpecInit /\ [][WtNext]_vars

Resources == {"Assets<Mesh>", "Assets<Material>", "AssetServer"}

\* The payloads of a ProjectileBundle after its projectile: a plain Bundle, or
\* a BundleOrAsset of loading.rs.
Payloads == {"Bundle", "AddMesh3", "AddMat3", "LoadMesh3"}

\* The resource a payload's to_bundle looks up, "none" for a plain Bundle.
Needs(p) ==
    CASE p = "AddMesh3" -> "Assets<Mesh>"
      [] p = "AddMat3" -> "Assets<Material>"
      [] p = "LoadMesh3" -> "AssetServer"
      [] OTHER -> "none"

\* BundleOrAsset::to_bundle.  A plain Bundle is itself.  AddMesh* / AddMat*:
\* if let Ok(assets) = resources.get_mut() { handle of the added asset } else
\* Default::default().  Load / LoadMesh*: resources.get::<AssetServer>()
\* .expect("Expects asset server."), a panic when it is absent.
ToBundle(p, res) ==
    CASE p = "Bundle" -> "component"
      [] p \in {"AddMesh3", "AddMat3"} ->
            IF Needs(p) \in res THEN "handle" ELSE "default"
      [] OTHER -> IF Needs(p) \in res THEN "handle" ELSE "panic"

\* into_projectile_bundle: to_bundle of every payload, in order.
IntoProjectileBundle(b, res) == [k \in 1..Len(b) |-> ToBundle(b[k], res)]

Panics(b, res) == \E k \in 1..Len(b) : ToBundle(b[k], res) = "panic"

Bundles == UNION {[1..k -> Payloads] : k \in 0..MaxPayloads}

\* One pass: the bundles spawn_projectile is going to yield, in order, and the
\* resources the world holds.
LdInit ==
    \E res \in SUBSET Resources, todo \in UNION {[1..k -> Bundles] : k \in 0..MaxSpawns} :
        ld = [res |-> res, todo |-> todo, kids |-> <<>>, status |-> "running"]

\* update_spawner, one iteration of while let Some(projectile) = spawn_projectile(cx):
\* the bundle is realized and the child is queued, or to_bundle panics and
\* projectile_update unwinds.
LdRealize ==
    /\ ld.status = "running" /\ ld.todo # <<>>
    /\ LET b == Head(ld.todo)
       IN  ld' = IF Panics(b, ld.res)
                 THEN [ld EXCEPT !.status = "panicked"]
                 ELSE [ld EXCEPT !.todo = Tail(@),
                                 !.kids = Append(@, IntoProjectileBundle(b, ld.res))]
    /\ UNCHANGED notLd

\* spawn_projectile returns None: the pass goes on to the remaining instances
\* and returns.
LdFinish ==
    /\ ld.status = "running" /\ ld.todo = <<>>
    /\ ld' = [ld EXCEPT !.status = "finished"]
    /\ UNCHANGED notLd

LdNext == LdRealize \/ LdFinish

LoadSpecInit == LdInit /\ EngineIdle /\ RcIdle /\ OtherLibsIdle("ld")

LoadSpec == LoadSpecInit /\ [][LdNext]_vars

\* C23: realizing a spawned bundle never aborts the tick: whatever resources
\* are absent, no payload makes the pass panic, and a payload whose resource is
\* absent is realized as its default.
C23_RealizingNeverAborts ==
    /\ ld.status # "panicked"
    /\ \A j \in 1..Len(ld.kids) : \A k \in 1..Len(ld.kids[j]) :
          ld.kids[j][k] \in {"component", "handle", "default"}

\* C24: a pass that finds no Time<Virtual> resource does nothing: no
\* instance's lifetime, done flag, expiry flag or token changes, no token count
\* changes, no child is built, no command is queued and no entity is removed,
\* also when a done root whose counter has no owner left is waiting for removal.
C24_NoTimeNoOp ==
    [][last'.path = "notime" =>
          /\ inst' = inst /\ strong' = strong
          /\ queue' = queue /\ nextId' = nextId
          /\ pending' = pending /\ pc' = pc /\ dt' = dt
          /\ ~last'.ranUpd /\ ~last'.ranExp /\ last'.kids = 0]_vars

C24_Witness ==
    /\ last.path = "notime"
    /\ \E e \in Entities : /\ inst[e].st = "live" /\ inst[e].done
                           /\ DriverDespawns(inst[e], strong)
    /\ \E e \in Entities : inst[e].st = "live" /\ ~inst[e].root /\ inst[e].lifetime > 0

\* ------------------ ClusterSpec: a SpawnerCluster, its children and its commands

\* What the queries of projectile_command_system see of the engine's world: the
\* entities that carry a ProjectileInstance, and their relationship.
WorldHierarchy ==
    [x \in Entities |->
        IF inst[x].st = "live"
        THEN [kind |-> inst[x].kind, parent |-> inst[x].parent, rel |-> inst[x].rel]
        ELSE [kind |-> "none", parent |-> 0, rel |-> "None"]]

\* projectile_command_system reads a ProjectileCommand addressed to e.  It runs
\* before projectile_update, on the world as the last pass's commands left it.
ClCommand(e) ==
    /\ pc = "idle"
    /\ cl' = [op |-> "command", to |-> e, got |-> ApplyIn(WorldHierarchy, e)]
    /\ UNCHANGED <<engineVars, notCl>>

\* The game spawns clusters only; everything else is the engine.
ClNext ==
    \/ \E nsp \in 0..MaxChain : SpawnRoot("cluster", nsp, FALSE)
    \/ \E d \in Dts : BeginPass(d)
    \/ \E e \in Entities : VisitDone(e)
    \/ \E e \in Entities : VisitProjectile(e)
    \/ \E e \in Entities : VisitSpawner(e)
    \/ \E e \in Entities : VisitCluster(e)
    \/ EndPass
    \/ \E e \in Entities : ClCommand(e)

ClusterSpec == Init /\ [][ClNext]_vars

ClusterChildren(e) ==
    {x \in Entities : inst[x].st = "live" /\ inst[x].parent = e /\ inst[x].rel = "ChildOf"}

\* C25: the first update of an instance built by from_spawner_iter over k
\* spawners builds exactly k children, each a non-root spawner instance queued
\* as a ChildOf child of the cluster and holding an Owned clone of the cluster's
\* token, and the cluster is done by that update; a command read for a cluster
\* is applied to the cluster and then once to each of its children in the
\* world, and to nothing else.
C25_ClusterSpawnsAndForwards ==
    [][/\ \A e \in Entities :
              (/\ pc = "pass" /\ e \in pending /\ e \notin pending'
               /\ inst[e].kind = "cluster" /\ ~inst[e].done) =>
                  /\ inst[e].lifetime = 0
                  /\ nextId' - nextId = inst[e].nsp
                  /\ last'.kids = inst[e].nsp
                  /\ \A j \in nextId..(nextId' - 1) :
                        /\ inst'[j].st = "queued" /\ inst'[j].kind = "spawner"
                        /\ ~inst'[j].root /\ ~inst'[j].done
                        /\ inst'[j].parent = e /\ inst'[j].rel = "ChildOf"
                        /\ inst'[j].rc = RcNew(inst[e].rc.counter)
                  /\ queue' = queue \o [j \in 1..inst[e].nsp |-> SpawnCmd(nextId + j - 1)]
                  /\ inst'[e].done /\ inst'[e].rc.state = "Released"
                  /\ strong'[inst[e].rc.counter] = inst[e].nsp
       /\ (cl' # cl /\ inst[cl'.to].st = "live" /\ inst[cl'.to].kind = "cluster") =>
              /\ Len(cl'.got) = 1 + Cardinality(ClusterChildren(cl'.to))
              /\ cl'.got[1] = cl'.to
              /\ \A x \in ClusterChildren(cl'.to) : Times(x, cl'.got) = 1]_vars

C25_Witness ==
    /\ pc = "idle"
    /\ inst[1].st = "live" /\ inst[1].kind = "cluster" /\ inst[1].done
    /\ ClusterChildren(1) = {2, 3}
    /\ inst[2].kind = "spawner" /\ inst[3].kind = "spawner"
    /\ inst[2].rc = RcNew(1) /\ inst[3].rc = RcNew(1)
    /\ cl = [op |-> "command", to |-> 1, got |-> <<1, 2, 3>>]

\* --------------------------------- LimitSpec: Limit over a base rate controller

\* Burst(n): try_spawn, what it returns and what it leaves; finished.
BurstCan(n) == n > 0

BurstAfterTry(n) == IF n > 0 THEN n - 1 ELSE n

BurstFinishedNever(n) == FALSE

BurstFinished(n) == n = 0

\* The base controller T of Limit<T>: a SpawnRate or a Burst.
RateBase(r) == [tag |-> "SpawnRate", rate |-> SpawnRateNew(r)]
BurstBase(n) == [tag |-> "Burst", left |-> n]

\* T::update, T::try_spawn (result and state left), T::finished.
BaseUpdate(b, d) ==
    IF b.tag = "SpawnRate" THEN [b EXCEPT !.rate = SpawnRateUpdate(@, d)] ELSE b

BaseCan(b) == IF b.tag = "SpawnRate" THEN CanSpawn(b.rate) ELSE BurstCan(b.left)

BaseAfterTry(b) ==
    IF b.tag = "SpawnRate" THEN [b EXCEPT !.rate = AfterTrySpawn(@)]
    ELSE [b EXCEPT !.left = BurstAfterTry(@)]

BaseFinished(b) == IF b.tag = "SpawnRate" THEN FALSE ELSE BurstFinished(b.left)

\* ProjectileSpawning::limit.
LimitOf(base, count) == [base |-> base, count |-> count]

\* Limit::update.
LimitUpdate(l, d) == [l EXCEPT !.base = BaseUpdate(@, d)]

\* Limit::try_spawn: self.count > 0 && self.base.try_spawn(); the base is
\* not asked once the count is used up.
LimitCanIgnoresCount(l) == BaseCan(l.base)

LimitCan(l) == l.count > 0 /\ BaseCan(l.base)

LimitAfterTry(l) ==
    IF l.count > 0
    THEN [l EXCEPT !.base = BaseAfterTry(@),
                   !.count = IF BaseCan(l.base) THEN @ - 1 ELSE @]
    ELSE l

\* Limit::finished.
LimitFinished(l) == l.count = 0 \/ BaseFinished(l.base)

LmInit ==
    \E n \in 0..MaxLimit,
       base \in {RateBase(r) : r \in BurstRates} \cup {BurstBase(m) : m \in 0..MaxBurst} :
        lm = [l |-> LimitOf(base, n), n |-> n, ok |-> 0, ticks |-> 0,
              op |-> "limit", ret |-> FALSE, before |-> LimitOf(base, n)]

\* limit.update(dt), dt half a second.
LmUpdate ==
    /\ lm.op # "none"
    /\ lm.ticks < MaxLmTicks
    /\ lm.l.base.tag = "SpawnRate" =>
          lm.l.base.rate.meta <= MetaCap - lm.l.base.rate.times_per_second * HalfSecond
    /\ lm' = [lm EXCEPT !.l = LimitUpdate(@, HalfSecond), !.ticks = @ + 1,
                        !.op = "update", !.ret = FALSE, !.before = lm.l]
    /\ UNCHANGED notLm

\* limit.try_spawn().
LmTrySpawn ==
    /\ lm.op # "none"
    /\ lm' = [lm EXCEPT !.l = LimitAfterTry(@), !.op = "try_spawn",
                        !.ret = LimitCan(lm.l), !.before = lm.l,
                        !.ok = IF LimitCan(lm.l) THEN @ + 1 ELSE @]
    /\ UNCHANGED notLm

LmNext == LmUpdate \/ LmTrySpawn

LimitSpecInit == LmInit /\ EngineIdle /\ RcIdle /\ OtherLibsIdle("lm")

LimitSpec == LimitSpecInit /\ [][LmNext]_vars

\* C26: with limit(n), over any interleaving of update and try_spawn,
\* try_spawn has returned true at most n times, each time on a call where the
\* base granted a spawn; finished() is true once n spawns have been granted
\* (from the start for n = 0) or the base is finished, and only then.
C26_LimitGrantsAtMostN ==
    lm.op # "none" =>
        /\ lm.ok <= lm.n
        /\ lm.ok + lm.l.count = lm.n
        /\ (lm.op = "try_spawn" /\ lm.ret) =>
              /\ BaseCan(lm.before.base)
              /\ lm.l.base = BaseAfterTry(lm.before.base)
        /\ (lm.op = "try_spawn" /\ lm.before.count = 0) => lm.l = lm.before
        /\ LimitFinished(lm.l) <=> (lm.ok = lm.n \/ BaseFinished(lm.l.base))

C26_Witness ==
    /\ lm.n = 2 /\ lm.ok = 2
    /\ lm.l.base.tag = "SpawnRate" /\ CanSpawn(lm.l.base.rate)
    /\ lm.op = "try_spawn" /\ ~lm.ret
    /\ LimitFinished(lm.l)

\* ----------------------- BurstOnceSpec: Burst(n) and a StandardSpawner built on it

\* StandardSpawner::spawn_projectile is spawning.spawn(..): the while let loop of
\* update_spawner runs as long as try_spawn succeeds.
RECURSIVE BurstDrain(_, _)
BurstDrain(n, k) ==
    IF BurstCan(n) THEN BurstDrain(BurstAfterTry(n), k + 1)
    ELSE [count |-> k, left |-> n]

\* A Burst(n) called directly ("calls"), or held by a StandardSpawner that is
\* the spawner of a ProjectileInstance::spawner ("spawner").
BuInit ==
    \E n \in 0..MaxBurst, use \in {"calls", "spawner"}, space \in Spaces :
        /\ use = "calls" => space = "Local"
        /\ bu = [left |-> n, n |-> n, use |-> use, space |-> space, ok |-> 0,
                 calls |-> 0, op |-> "new", dt |-> 0, ret |-> FALSE, before |-> n,
                 ticks |-> 0, kids |-> <<>>, done |-> FALSE]

\* burst.update(dt): fn update(&mut self, _: f32) {}.
BuUpdate(d) ==
    /\ bu.op # "none" /\ bu.use = "calls"
    /\ bu.calls < MaxBuCalls
    /\ bu' = [bu EXCEPT !.op = "update", !.dt = d, !.ret = FALSE, !.before = bu.left,
                        !.calls = @ + 1]
    /\ UNCHANGED notBu

\* burst.try_spawn().
BuTrySpawn ==
    /\ bu.op # "none" /\ bu.use = "calls"
    /\ bu.calls < MaxBuCalls
    /\ bu' = [bu EXCEPT !.left = BurstAfterTry(@), !.op = "try_spawn", !.dt = 0,
                        !.ret = BurstCan(bu.left), !.before = bu.left,
                        !.ok = IF BurstCan(bu.left) THEN @ + 1 ELSE @,
                        !.calls = @ + 1]
    /\ UNCHANGED notBu

\* The driver visits the instance (not done): ErasedSpawner::update is
\* update_spawner, then spawner_done; is_complete is spawning.finished().
BuTick(d) ==
    /\ bu.op # "none" /\ bu.use = "spawner" /\ ~bu.done
    /\ bu.ticks < MaxBuCalls
    /\ LET c0 == <<BurstFinished(bu.left)>>
           dr == IF c0[1] THEN [count |-> 0, left |-> bu.left] ELSE BurstDrain(bu.left, 0)
           rels == UpdateSpawner(c0, <<dr.count>>, <<bu.space>>, 1)
           ret == SpawnerDone(<<BurstFinished(dr.left)>>, 1)
       IN  bu' = [bu EXCEPT !.left = dr.left, !.op = "tick", !.dt = d, !.ret = ret,
                            !.before = bu.left, !.ticks = @ + 1,
                            !.kids = @ \o rels, !.done = ret]
    /\ UNCHANGED notBu

BuNext ==
    \/ \E d \in FrameTimes : BuUpdate(d)
    \/ BuTrySpawn
    \/ \E d \in FrameTimes : BuTick(d)

BurstOnceSpecInit == BuInit /\ EngineIdle /\ RcIdle /\ OtherLibsIdle("bu")

BurstOnceSpec == BurstOnceSpecInit /\ [][BuNext]_vars

\* C27: Burst(n) grants n spawns in all: the successes so far and the spawns
\* left add up to n whatever updates were made and with whatever dt, a call
\* succeeds exactly while some are left, and finished() holds exactly when n
\* have been granted; a spawner instance built on Burst(n) has, after its first
\* tick, spawned n children in the space of the spawner and is done.
C27_BurstGrantsExactlyN ==
    bu.op # "none" =>
        /\ bu.ok + Len(bu.kids) + bu.left = bu.n
        /\ bu.op = "update" => bu.left = bu.before
        /\ bu.op = "try_spawn" => (bu.ret <=> bu.before > 0)
        /\ BurstFinished(bu.left) <=> bu.ok + Len(bu.kids) = bu.n
        /\ bu.ticks >= 1 =>
              /\ bu.ticks = 1 /\ bu.done
              /\ Len(bu.kids) = bu.n
              /\ \A k \in 1..Len(bu.kids) : bu.kids[k] = SpaceRelation(bu.space)

C27_Witness ==
    /\ bu.use = "spawner" /\ bu.n = 3 /\ bu.space = "World"
    /\ bu.ticks = 1 /\ bu.done /\ Len(bu.kids) = 3 /\ bu.dt = 8947849

\* ------------------------------------------------ OnceSpec: ConditionOnce

\* ConditionOnce::new: ConditionOnce(false).
ConditionOnceNew == FALSE

\* ConditionOnce::if_then(cond, then): whether then() is run (Some / None), and
\* the flag it leaves.
IfThenRunsOnCond(c, cond) == cond

IfThenRuns(c, cond) == ~c /\ cond

AfterIfThen(c, cond) == IF ~c /\ cond THEN TRUE ELSE c

\* ConditionOnce::set(condition): whether condition() is evaluated, the flag it
\* leaves (also the value returned); cond is what condition() answers.
SetEvaluates(c) == ~c

AfterSet(c, cond) == IF ~c THEN cond ELSE c

\* ConditionOnce::is_activated.
IsActivated(c) == c

CoInit ==
    co = [c |-> ConditionOnceNew, op |-> "new", cond |-> FALSE, before |-> FALSE,
          ran |-> FALSE, evaluated |-> FALSE, ret |-> FALSE,
          thens |-> 0, flips |-> 0, calls |-> <<>>]

\* once.if_then(cond, then).  calls is the sequence of calls made so far.
CoIfThen(cond) ==
    /\ co.op # "none" /\ Len(co.calls) < MaxCoCalls
    /\ co' = [co EXCEPT !.c = AfterIfThen(co.c, cond), !.op = "if_then", !.cond = cond,
                        !.before = co.c, !.ran = IfThenRuns(co.c, cond),
                        !.evaluated = FALSE, !.ret = IfThenRuns(co.c, cond),
                        !.thens = IF IfThenRuns(co.c, cond) THEN @ + 1 ELSE @,
                        !.flips = IF AfterIfThen(co.c, cond) # co.c THEN @ + 1 ELSE @,
                        !.calls = Append(@, <<"if_then", cond>>)]
    /\ UNCHANGED notCo

\* once.set(|| cond).
CoSet(cond) ==
    /\ co.op # "none" /\ Len(co.calls) < MaxCoCalls
    /\ SetEvaluates(co.c) \/ ~cond
    /\ co' = [co EXCEPT !.c = AfterSet(co.c, cond), !.op = "set", !.cond = cond,
                        !.before = co.c, !.ran = FALSE,
                        !.evaluated = SetEvaluates(co.c), !.ret = AfterSet(co.c, cond),
                        !.flips = IF AfterSet(co.c, cond) # co.c THEN @ + 1 ELSE @,
                        !.calls = Append(@, <<"set", cond>>)]
    /\ UNCHANGED notCo

CoNext ==
    \/ \E cond \in BOOLEAN : CoIfThen(cond)
    \/ \E cond \in BOOLEAN : CoSet(cond)

OnceSpecInit == CoInit /\ EngineIdle /\ RcIdle /\ OtherLibsIdle("co")

OnceSpec == OnceSpecInit /\ [][CoNext]_vars

\* C28: is_activated() changes at most once, from false to true, and never
\* back; over any sequence of if_then and set calls the then closure has run at
\* most once, and only in a call made while not activated with a true
\* condition; once activated, set() returns true without evaluating its
\* condition.
C28_ActivatesOnce ==
    [][co'.op # "none" =>
          /\ IsActivated(co.c) => IsActivated(co'.c)
          /\ co'.flips <= 1 /\ (co'.flips = 1 <=> IsActivated(co'.c))
          /\ co'.thens <= 1
          /\ co'.ran => (co'.op = "if_then" /\ ~IsActivated(co'.before) /\ co'.cond)
          /\ (co'.op = "set" /\ IsActivated(co'.before)) => (co'.ret /\ ~co'.evaluated)]_vars

C28_Witness ==
    /\ co.thens = 1 /\ co.flips = 1 /\ Len(co.calls) = 4
    /\ co.calls[1] = <<"set", FALSE>> /\ co.calls[2] = <<"if_then", TRUE>>
    /\ co.op = "set" /\ co.before /\ co.ret /\ ~co.evaluated

\* ------------------------------ SeedSpec: two spawners built and seeded alike

\* fastrand::Rng stands as a small deterministic generator: a state, a step,
\* and the value a state yields.  Rng::with_seed(seed) fixes the state;
\* Rng::new() starts from a state nobody chose.
RngStates == 0..4

RngWithSeed(seed) == seed % Cardinality(RngStates)

RngStep(s) == (2 * s + 1) % Cardinality(RngStates)

\* rng.usize(lo..=hi).
RngUsize(s, lo, hi) == lo + (RngStep(s) % (hi - lo + 1))

\* StandardSpawner { spawning, spawn_fn, rng: Rng::new(), space } followed by
\* seeded(seed): self.rng = Rng::with_seed(seed).  spawning is a SpawnRate or
\* the RandomBursts built by in_random_bursts, whose own rng is Rng::new().
Seeded(ctl, bursts, brng, seed) ==
    [ctl |-> ctl, rb |-> bursts, brng |-> brng, rng |-> RngWithSeed(seed)]

\* spawning.try_spawn(): the result and the spawner it leaves.
SpawningTrySpawn(s) ==
    IF s.ctl = "SpawnRate"
    THEN [ret |-> CanSpawn(s.rb.base), s |-> [s EXCEPT !.rb.base = AfterTrySpawn(@)]]
    ELSE LET draws == s.rb.current = 0 /\ CanSpawn(s.rb.base)
             spawns == RngUsize(s.brng, s.rb.lo, s.rb.hi)
         IN  [ret |-> BurstTrySpawnRet(s.rb, spawns),
              s |-> [s EXCEPT !.rb = AfterBurstTrySpawn(@, spawns),
                              !.brng = IF draws THEN RngStep(@) ELSE @]]

\* update_spawner's while let Some(..) = spawn_projectile(cx), with
\* spawn_projectile = spawning.spawn(|| spawn_fn(&mut rng, cx)): out is the
\* draw each call of spawn_fn was handed, one per child.
RECURSIVE SpawnAll(_, _)
SpawnAll(s, out) ==
    LET t == SpawningTrySpawn(s)
    IN  IF t.ret
        THEN SpawnAll([t.s EXCEPT !.rng = RngStep(@)], Append(out, RngStep(t.s.rng)))
        ELSE [s |-> t.s, out |-> out]

\* StandardSpawner::update, then the spawn loop.
SpawnerTick(s, d) == SpawnAll([s EXCEPT !.rb = AfterBurstUpdate(@, d)], <<>>)

SdInit ==
    \E seed \in 0..MaxSeed, ctl \in {"SpawnRate", "RandomBursts"}, r \in ChainRates,
       lo \in 0..MaxBurst, hi \in 0..MaxBurst, ba \in RngStates, bb \in RngStates :
        /\ lo <= hi
        /\ ctl = "SpawnRate" => (lo = 0 /\ hi = 0 /\ ba = 0 /\ bb = 0)
        /\ sd = [a |-> Seeded(ctl, InRandomBursts(SpawnRateNew(r), lo, hi), ba, seed),
                 b |-> Seeded(ctl, InRandomBursts(SpawnRateNew(r), lo, hi), bb, seed),
                 seed |-> seed, ticks |-> 0, outA |-> <<>>, outB |-> <<>>]

\* One tick of the driver: both instances are updated with the same dt.
SdTick ==
    /\ sd # Parked /\ sd.ticks < MaxSdTicks
    /\ sd.a.rb.base.meta <= MetaCap - sd.a.rb.base.times_per_second * HalfSecond
    /\ LET ta == SpawnerTick(sd.a, HalfSecond)
           tb == SpawnerTick(sd.b, HalfSecond)
       IN  sd' = [sd EXCEPT !.a = ta.s, !.b = tb.s, !.ticks = @ + 1,
                            !.outA = ta.out, !.outB = tb.out]
    /\ UNCHANGED notSd

SdNext == SdTick

SeedSpecInit == SdInit /\ EngineIdle /\ RcIdle /\ OtherLibsIdle("sd")

SeedSpec == SeedSpecInit /\ [][SdNext]_vars

\* C29: two StandardSpawners built alike and seeded alike, driven by the same
\* ticks, spawn the same number of children on every tick and hand the same
\* draws to spawn_fn, whatever the spawn-rate controller.
C29_SeededSpawnersAgree ==
    sd # Parked => sd.outA = sd.outB

\* C30: expiry is irreversible.  update_projectile runs only on a tick whose
\* is_expired is false, never on the same tick as on_expire, and never again
\* for an instance whose on_expire has run, whatever is_expired answers later.
C30_ExpiryIrreversible ==
    Dispatch("projectile") =>
        /\ last.ranUpd => ~last.isExp
        /\ ~(last.ranUpd /\ last.ranExp)
        /\ last.ranUpd => (~inst[last.e].expired /\ inst[last.e].nexp = 0)

\* ------------------------------------- FacSpec: the fac a context exposes

\* fac values are counted in quarters: 1.0 is FacOne.
FacOne == 4

FcDurations == 1..MaxFcDur
FcCurves == {"linear", "reverse"}

\* fac_curve: the default returns fac, a user type may ease it (here 1 - fac).
FacCurve(curve, fac) == IF curve = "linear" THEN fac ELSE FacOne - fac

\* ErasedProjectileInst::get_fac / ErasedSpawner::get_fac:
\* fac_curve(lifetime / duration) of the wrapped user type.
GetFac(i, lifetime) ==
    IF i.kind = "projectile"
    THEN FacCurve(i.pcurve, (lifetime * FacOne) \div i.pdur)
    ELSE FacCurve(i.scurve, (lifetime * FacOne) \div i.sdur)

\* projectile_update builds the context with fac: 0.
ContextFac == 0

\* ErasedProjectileInst::update: cx.fac is assigned in the not-expired branch only.
FacAfterExpiryCheck(i, lifetime, isExp) ==
    IF ~isExp THEN FacCurve(i.pcurve, (lifetime * FacOne) \div i.pdur) ELSE ContextFac

\* The hooks one update calls with the context, and the fac each of them reads.
\* ErasedProjectileInst::update: update_projectile or on_expire, then
\* update_spawner (is_complete, and update when not complete) if as_spawner is Some.
\* ErasedSpawner::update: update_spawner alone.
HooksOfUpdate(i, lifetime, isExp, complete) ==
    LET fac == IF i.kind = "projectile" THEN FacAfterExpiryCheck(i, lifetime, isExp)
               ELSE ContextFac
        own == IF i.kind # "projectile" THEN <<>>
               ELSE IF ~isExp THEN <<[hook |-> "update_projectile", fac |-> fac]>>
               ELSE IF ~i.expired THEN <<[hook |-> "on_expire", fac |-> fac]>>
               ELSE <<>>
        sp == IF ~i.hasSp THEN <<>>
              ELSE <<[hook |-> "is_complete", fac |-> fac]>>
                   \o (IF complete THEN <<>> ELSE <<[hook |-> "update", fac |-> fac]>>)
    IN  own \o sp

\* A projectile (with or without as_spawner) or a spawner-only instance,
\* each with its own duration and fac_curve.
FcInit ==
    \E kind \in {"projectile", "spawner"}, hasSp \in BOOLEAN,
       pdur \in FcDurations, sdur \in FcDurations, pcurve \in FcCurves, scurve \in FcCurves :
       /\ kind = "spawner" => (hasSp /\ pdur = 1 /\ pcurve = "linear")
       /\ ~hasSp => (sdur = 1 /\ scurve = "linear")
       /\ fc = [op |-> "new", kind |-> kind, hasSp |-> hasSp, pdur |-> pdur, sdur |-> sdur,
                pcurve |-> pcurve, scurve |-> scurve, lifetime |-> 0, expired |-> FALSE,
                seen |-> <<>>, getFac |-> 0]

\* One iteration of projectile_update for the instance: lifetime += dt, the
\* context is built, update is dispatched.
FcUpdate(d, isExp, complete) ==
    /\ fc.op \in {"new", "update"}
    /\ fc.lifetime + d <= MaxFcLife
    /\ (fc.kind # "projectile") => ~isExp
    /\ ~fc.hasSp => ~complete
    /\ LET lifetime == AdvanceLifetime(fc.lifetime, d)
       IN  fc' = [fc EXCEPT !.op = "update", !.lifetime = lifetime,
                            !.expired = fc.expired \/ (fc.kind = "projectile" /\ isExp),
                            !.seen = HooksOfUpdate(fc, lifetime, isExp, complete),
                            !.getFac = GetFac(fc, lifetime)]
    /\ UNCHANGED notFc

FcNext == \E d \in Dts, isExp \in BOOLEAN, complete \in BOOLEAN : FcUpdate(d, isExp, complete)

FacSpecInit == FcInit /\ EngineIdle /\ RcIdle /\ OtherLibsIdle("fc")

FacSpec == FacSpecInit /\ [][FcNext]_vars

\* C31: during every update of an instance, every hook that receives the
\* context reads a fac equal to get_fac(lifetime) of that instance, for
\* spawner-only instances and after expiry as well.
C31_ContextFacIsGetFac ==
    (fc # Parked /\ fc.op = "update") =>
        \A k \in 1..Len(fc.seen) : fc.seen[k].fac = fc.getFac

\* C32: an update only ever runs on an instance whose own token is Owned (an
\* instance that is not done holds an Owned token), so every child an update
\* creates, in on_expire and on the tick its parent completes included, is
\* built not done with an Owned clone of its parent's token; no instance is
\* created holding a Released token.
C32_ChildrenStartOwned ==
    /\ \A e \in Entities :
          (inst[e].st \in {"live", "queued"} /\ ~inst[e].done) => inst[e].rc.state = "Owned"
    /\ \A e \in Entities :
          inst[e].st = "queued" =>
              /\ inst[e].rc.state = "Owned" /\ ~inst[e].done
              /\ inst[e].lifetime = 0 /\ ~inst[e].root
    /\ last.path = "update" =>
          \A x \in last.first..(last.first + last.kids - 1) :
              /\ inst[x].st = "queued" /\ ~inst[x].done
              /\ inst[x].rc = [state |-> "Owned", counter |-> inst[last.e].rc.counter]
              /\ inst[x].parent = last.e

C32_Witness ==
    /\ last.path = "update" /\ last.ret /\ last.ranExp /\ last.hk = 1
    /\ inst[last.e].done /\ inst[last.e].rc.state = "Released"
    /\ inst[last.first].st = "queued" /\ inst[last.first].rc.state = "Owned"

\* The Owned tokens on counter c held by instances in the world or in the queue.
OwnedOn(im, c) ==
    Cardinality({x \in Entities : /\ im[x].st \in {"live", "queued"}
                                  /\ im[x].rc = [state |-> "Owned", counter |-> c]})

\* The entities whose despawn takes x with it: x and what x hangs under through
\* ChildOf, as the instances are recorded in im.
RECURSIVE LinkedAbove(_, _, _)
LinkedAbove(x, im, k) ==
    IF k = 0 \/ im[x].rel # "ChildOf" \/ im[x].parent = 0 THEN {x}
    ELSE {x} \cup LinkedAbove(im[x].parent, im, k - 1)

\* What holds of every step for a child x between the command that spawns it
\* and its first update; joins is what the end of the pass does with it.
ChildSteps(joins(_)) ==
    /\ \A x \in Entities :
          (inst[x].st = "none" /\ inst'[x].st = "queued") =>
              /\ pc = "pass" /\ x \notin pending /\ x \notin pending'
              /\ inst'[x].lifetime = 0
              /\ inst'[x].rc.state = "Owned"
              /\ strong'[inst'[x].rc.counter] = OwnedOn(inst', inst'[x].rc.counter)
              /\ strong'[inst'[x].rc.counter] >= 1
    /\ \A x \in Entities :
          (inst[x].st = "queued" /\ pc = "pass") =>
              /\ x \notin pending'
              /\ inst'[x].lifetime = 0
              /\ (pc' = "idle" => joins(x))
    /\ (pc = "idle" /\ pc' = "pass") =>
          \A x \in Entities : inst[x].st = "live" => x \in pending'
    /\ \A x \in Entities :
          (x \in pending /\ x \notin pending' /\ ~inst[x].done /\ inst[x].lifetime = 0) =>
              /\ inst'[x].lifetime = dt
              /\ last'.path = "update" /\ last'.e = x

JoinsWorld(x) == inst'[x].st = "live"

JoinsWorldOrLeavesWithAncestor(x) ==
    \/ inst'[x].st = "live"
    \/ /\ inst'[x].st = "gone"
       /\ \E k \in 1..Len(queue) :
             /\ queue[k].op = "despawn"
             /\ queue[k].e \in LinkedAbove(x, inst, MaxEntities)

LoopStep ==
    /\ \E e \in Entities : VisitDone(e) \/ VisitProjectile(e) \/ VisitSpawner(e)
    /\ nextId' <= MaxLiveKids + 2

\* projectile_update is in the Update schedule: in a world with a Time<Virtual>
\* it runs in every frame, its loop runs to the end of the query, and the
\* commands it queued are applied when it returns.
LiveNext ==
    \/ \E kind \in {"projectile", "spawner"}, nsp \in 0..1, dexp \in BOOLEAN :
          /\ kind # "projectile" => (nsp >= 1 /\ ~dexp)
          /\ SpawnRoot(kind, nsp, dexp)
    \/ PassWithoutTime
    \/ BeginPass(1)
    \/ LoopStep
    \/ EndPass

LiveSpec ==
    /\ Init /\ [][LiveNext]_vars
    /\ WF_vars(BeginPass(1))
    /\ WF_vars(LoopStep)
    /\ WF_vars(EndPass)

DespawnQueued(q, e) == \E k \in 1..Len(q) : q[k] = DespawnCmd(e)

\* C33: a done root whose counter has no owner left gets its removal issued by
\* the pass that visits it, in whatever order the pass visits the instances: a
\* root ripe when a pass begins is gone when that pass ends, so removal comes in
\* the pass in which the last owner finished or in the next one; and every
\* ripe root is eventually removed.
C33_DoneRootRemoved ==
    /\ [][/\ \A e \in Entities :
                (pc = "pass" /\ e \in RipeRoots /\ e \in pending /\ e \notin pending') =>
                    DespawnQueued(queue', e)
          /\ (pc = "pass" /\ pc' = "idle") =>
                \A e \in last.ripe : DespawnQueued(queue, e) /\ inst'[e].st = "gone"]_vars
    /\ \A e \in Entities : (e \in RipeRoots) ~> (inst[e].st = "gone")

C33_Witness ==
    \E e \in RipeRoots :
        /\ pc = "pass" /\ e \notin pending /\ e \notin last.ripe
        /\ ~DespawnQueued(queue, e)
        /\ \E x \in Entities \ {e} : inst[x].st = "live" /\ inst[x].rc.counter = inst[e].rc.counter

\* --------------------------- OfferSpec: the handlers a command is offered to

\* Handler 0 is Projectile::apply_command of the user type, handler i >= 1
\* ProjectileSpawner::apply_command of the i-th spawner of its chain.
\* apply_command_on_spawner: this.apply_command(command), then the extension.
\* c[i] is whether the i-th spawner is complete.
RECURSIVE ApplyCommandOnSpawner(_, _)
ApplyCommandOnSpawnerSkipsComplete(c, i) ==
    IF i > Len(c) THEN <<>>
    ELSE (IF c[i] THEN <<>> ELSE <<i>>) \o ApplyCommandOnSpawner(c, i + 1)

ApplyCommandOnSpawner(c, i) ==
    IF i > Len(c) THEN <<>> ELSE <<i>> \o ApplyCommandOnSpawner(c, i + 1)

\* ErasedProjectileInst::apply_command / ErasedSpawner::apply_command: the
\* handlers called, in order.
ErasedApplyCommand(i) ==
    IF i.kind = "projectile"
    THEN <<0>> \o (IF Len(i.complete) > 0 THEN ApplyCommandOnSpawner(i.complete, 1) ELSE <<>>)
    ELSE ApplyCommandOnSpawner(i.complete, 1)

\* apply_projectile_command on the entity: projectiles.get_mut(entity) finds the
\* instance whatever its done flag, and calls apply_command on it.
OfferedTo(i) == ErasedApplyCommand(i)

AcInit ==
    \E kind \in {"projectile", "spawner"}, nsp \in 0..MaxChain :
       /\ kind = "spawner" => nsp >= 1
       /\ ac = [op |-> "new", kind |-> kind, complete |-> [j \in 1..nsp |-> FALSE],
                expired |-> FALSE, done |-> FALSE, calls |-> <<>>, cmds |-> 0]

\* One update of the instance: is_expired and is_complete answer isExp and c.
AcUpdate(isExp, c) ==
    /\ ac.op # "none" /\ ~ac.done
    /\ ac.kind = "spawner" => ~isExp
    /\ LET expired == ac.expired \/ isExp
           ret == IF ac.kind = "projectile" THEN ProjectileDone(expired, c)
                  ELSE SpawnerDone(c, 1)
       IN  ac' = [ac EXCEPT !.op = "update", !.complete = c, !.expired = expired,
                            !.done = ret, !.calls = <<>>]
    /\ UNCHANGED notAc

\* projectile_command_system reads one ProjectileCommand addressed to the instance.
AcCommand ==
    /\ ac.op # "none" /\ ac.cmds < MaxAcCmds
    /\ ac' = [ac EXCEPT !.op = "command", !.calls = OfferedTo(ac), !.cmds = @ + 1]
    /\ UNCHANGED notAc

AcNext ==
    \/ \E isExp \in BOOLEAN, c \in [1..Len(ac.complete) -> BOOLEAN] : AcUpdate(isExp, c)
    \/ AcCommand

OfferSpecInit == AcInit /\ EngineIdle /\ RcIdle /\ OtherLibsIdle("ac")

OfferSpec == OfferSpecInit /\ [][AcNext]_vars

TimesOffered(calls, h) == Cardinality({k \in 1..Len(calls) : calls[k] = h})

\* C35: a command applied to an instance is offered exactly once to the
\* projectile's own handler (when the instance is a projectile) and exactly once
\* to every spawner of its chain, whether or not a spawner is complete, the
\* projectile expired or the instance done.
C35_OfferedOnceToEach ==
    (ac # Parked /\ ac.op = "command") =>
        /\ TimesOffered(ac.calls, 0) = (IF ac.kind = "projectile" THEN 1 ELSE 0)
        /\ \A h \in 1..Len(ac.complete) : TimesOffered(ac.calls, h) = 1
        /\ Len(ac.calls) = Len(ac.complete) + (IF ac.kind = "projectile" THEN 1 ELSE 0)

C35_Witness ==
    /\ ac # Parked /\ ac.op = "command" /\ ac.kind = "projectile"
    /\ ac.done /\ ac.expired /\ Len(ac.complete) = 2 /\ ac.complete[1] /\ ac.complete[2]
    /\ ac.calls = <<0, 1, 2>>

\* ------------------------------- WrapSpec: WithSpawner { base, spawner }

\* A spawner chain is the sequence of the spawners extension() leads through,
\* each named by a number: base A is 1..na (A itself and its own extensions),
\* the added spawner T is na+1..na+nt.
ChainOf(from, len) == [k \in 1..len |-> from + k - 1]

\* impl ProjectileSpawner for WithSpawner: spawn_projectile, space, update,
\* apply_command, duration, fac_curve, is_complete and children are those of
\* base; extension() is Some(&mut self.spawner).
WithSpawnerChain(a, t) == <<Head(a)>> \o t

\* What driving a chain ch does, with is_complete answering c0 at the start of
\* the step and c1 at its end and spawn_projectile answering Some n[s] times for
\* spawner s: the spawners updated, the children each spawns, the value of
\* spawner_done, and the spawners a command is offered to.
DriveChain(ch, c0, c1, n) ==
    LET at0 == [k \in 1..Len(ch) |-> c0[ch[k]]]
        at1 == [k \in 1..Len(ch) |-> c1[ch[k]]]
        upd == {ch[k] : k \in UpdatedSpawners(at0, 1)}
        off == ApplyCommandOnSpawner(at1, 1)
    IN  [updated |-> upd,
         spawned |-> [s \in DOMAIN c0 |-> IF s \in upd THEN n[s] ELSE 0],
         done |-> SpawnerDone(at1, 1),
         offered |-> {ch[off[k]] : k \in 1..Len(off)}]

NotDriven == [updated |-> {}, spawned |-> <<>>, done |-> FALSE, offered |-> {}]

WsInit ==
    \E na \in 1..MaxChain, nt \in 1..MaxChain :
       ws = [op |-> "new", a |-> ChainOf(1, na), t |-> ChainOf(na + 1, nt),
             bare |-> NotDriven, also |-> NotDriven, wrapped |-> NotDriven, ticks |-> 0]

\* One update and one command, for A alone, for A followed by T, and for
\* WithSpawner { base: A, spawner: T }, all given the same hook answers.
WsDrive(c0, c1, n) ==
    /\ ws.op # "none" /\ ws.ticks < MaxWsTicks
    /\ ws' = [ws EXCEPT !.op = "drive", !.ticks = @ + 1,
                        !.bare = DriveChain(ws.a, c0, c1, n),
                        !.also = DriveChain(ws.a \o ws.t, c0, c1, n),
                        !.wrapped = DriveChain(WithSpawnerChain(ws.a, ws.t), c0, c1, n)]
    /\ UNCHANGED notWs

WsNext ==
    \E c0 \in [1..(Len(ws.a) + Len(ws.t)) -> BOOLEAN],
       c1 \in [1..(Len(ws.a) + Len(ws.t)) -> BOOLEAN],
       n \in [1..(Len(ws.a) + Len(ws.t)) -> 0..1] : WsDrive(c0, c1, n)

WrapSpecInit == WsInit /\ EngineIdle /\ RcIdle /\ OtherLibsIdle("ws")

WrapSpec == WrapSpecInit /\ [][WsNext]_vars

\* C36: wrapping A in WithSpawner { base: A, spawner: T } keeps A's behaviour
\* and appends T: every spawner of A's own extension chain is updated, spawns,
\* is offered commands and counts toward completion as when A is used alone,
\* and the spawners of T are processed after them.
C36_WrapPreservesBase ==
    (ws # Parked /\ ws.op = "drive") =>
        /\ \A k \in 1..Len(ws.a) :
              LET s == ws.a[k]
              IN  /\ (s \in ws.wrapped.updated) = (s \in ws.bare.updated)
                  /\ ws.wrapped.spawned[s] = ws.bare.spawned[s]
                  /\ (s \in ws.wrapped.offered) = (s \in ws.bare.offered)
        /\ ws.wrapped.updated = ws.also.updated
        /\ ws.wrapped.spawned = ws.also.spawned
        /\ ws.wrapped.offered = ws.also.offered
        /\ ws.wrapped.done = ws.also.done

\* --------------------------- NestSpec: nested spawn-rate controllers

\* A nesting is the combinators from the outermost to the innermost, layers,
\* around a SpawnRate or a Burst, base.
LimitLayer(count) == [tag |-> "Limit", count |-> count, lo |-> 0, hi |-> 0, current |-> 0]

\* ProjectileSpawning::in_bursts / in_random_bursts: range min..=max, current: 0.
BurstsLayer(lo, hi) == [tag |-> "RandomBursts", count |-> 0, lo |-> lo, hi |-> hi, current |-> 0]

NestLayers ==
    {LimitLayer(n) : n \in 0..2} \cup {BurstsLayer(0, 2), BurstsLayer(2, 2)}

NestBases == {RateBase(2), BurstBase(0), BurstBase(1), BurstBase(2)}

\* Limit::update / RandomBursts::update: self.base.update(dt), down to the base.
NestUpdate(c, d) == [c EXCEPT !.base = BaseUpdate(@, d)]

\* finished() of the combinator at depth i: Limit is count == 0 || base.finished(),
\* RandomBursts is base.finished().
RECURSIVE NestFinished(_, _)
NestFinished(c, i) ==
    IF i > Len(c.layers) THEN BaseFinished(c.base)
    ELSE IF c.layers[i].tag = "Limit"
         THEN c.layers[i].count = 0 \/ NestFinished(c, i + 1)
         ELSE NestFinished(c, i + 1)

\* try_spawn() of the combinator at depth i: what it returns and the nesting it
\* leaves; draw[i] is what rng.usize(range) answers if depth i draws.
RECURSIVE NestTrySpawn(_, _, _)
NestTrySpawn(c, i, draw) ==
    IF i > Len(c.layers)
    THEN [ok |-> BaseCan(c.base), c |-> [c EXCEPT !.base = BaseAfterTry(@)]]
    ELSE IF c.layers[i].tag = "Limit"
    THEN IF c.layers[i].count > 0
         THEN LET r == NestTrySpawn(c, i + 1, draw)
              IN  IF r.ok THEN [ok |-> TRUE, c |-> [r.c EXCEPT !.layers[i].count = @ - 1]]
                  ELSE [ok |-> FALSE, c |-> r.c]
         ELSE [ok |-> FALSE, c |-> c]
    ELSE IF c.layers[i].current > 0
         THEN [ok |-> TRUE, c |-> [c EXCEPT !.layers[i].current = @ - 1]]
         ELSE LET r == NestTrySpawn(c, i + 1, draw)
              IN  IF r.ok
                  THEN IF draw[i] = 0 THEN [ok |-> FALSE, c |-> r.c]
                       ELSE [ok |-> TRUE, c |-> [r.c EXCEPT !.layers[i].current = draw[i] - 1]]
                  ELSE [ok |-> FALSE, c |-> r.c]

\* The answers rng.usize(range) can give at each depth.
NestDraws(c) ==
    {d \in [1..Len(c.layers) -> 0..2] :
        \A i \in 1..Len(c.layers) :
            IF c.layers[i].tag = "RandomBursts"
            THEN d[i] \in c.layers[i].lo..c.layers[i].hi
            ELSE d[i] = 0}

NfInit ==
    \E k \in 0..MaxNest, base \in NestBases :
       \E layers \in [1..k -> NestLayers] :
          nf = [op |-> "new", c |-> [layers |-> layers, base |-> base],
                was |-> FALSE, ever |-> FALSE, ret |-> FALSE, calls |-> 0]

\* ctl.update(dt), dt half a second.
NfUpdate ==
    /\ nf.op # "none" /\ nf.calls < MaxNfCalls
    /\ nf.c.base.tag = "SpawnRate" =>
          nf.c.base.rate.meta <= MetaCap - nf.c.base.rate.times_per_second * HalfSecond
    /\ nf' = [nf EXCEPT !.op = "update", !.c = NestUpdate(@, HalfSecond),
                        !.was = NestFinished(nf.c, 1),
                        !.ever = @ \/ NestFinished(nf.c, 1),
                        !.ret = FALSE, !.calls = @ + 1]
    /\ UNCHANGED notNf

\* ctl.try_spawn().
NfTrySpawn(draw) ==
    /\ nf.op # "none" /\ nf.calls < MaxNfCalls
    /\ LET r == NestTrySpawn(nf.c, 1, draw)
       IN  nf' = [nf EXCEPT !.op = "try_spawn", !.c = r.c,
                            !.was = NestFinished(nf.c, 1),
                            !.ever = @ \/ NestFinished(nf.c, 1),
                            !.ret = r.ok, !.calls = @ + 1]
    /\ UNCHANGED notNf

NfNext ==
    \/ NfUpdate
    \/ \E draw \in NestDraws(nf.c) : NfTrySpawn(draw)

NestSpecInit == NfInit /\ EngineIdle /\ RcIdle /\ OtherLibsIdle("nf")

NestSpec == NestSpecInit /\ [][NfNext]_vars

\* C37: for every nesting of SpawnRate, Burst, Limit and RandomBursts,
\* finished() never goes back from true to false over update and try_spawn
\* calls, and once finished() has returned true no later try_spawn returns true.
C37_FinishedIsFinal ==
    (nf # Parked /\ nf.op # "new") =>
        /\ nf.ever => NestFinished(nf.c, 1)
        /\ (nf.op = "try_spawn" /\ nf.ever) => ~nf.ret

====
